---------------------------- MODULE Spec2Model ----------------------------
(***************************************************************************)
(* A model of the flake lock solver (src/libexpr/flake/flake.cc,           *)
(* lockFlake and its recursive closure computeLocks), of the per-solve     *)
(* fetch cache (lookupInFlakeCache, fetchOrSubstituteTree) and of the      *)
(* override tree (setOverride, FlakeInput::setOverrides, printOverrides).  *)
(*                                                                         *)
(* The recursion of computeLocks is an explicit stack of frames; one       *)
(* action processes one declared input (one iteration of the for loop at   *)
(* flake.cc:356), one action returns from a finished frame, one action is  *)
(* everything lockFlake does before the root traversal and one everything  *)
(* it does after it.                                                       *)
(***************************************************************************)
EXTENDS Naturals, Sequences, FiniteSets, TLC

VARIABLES
    world,        \* which universe of flakes the fetchers see (fixed per behaviour)
    disk,         \* the flake.lock stored beside the top flake.nix
    topGen,       \* generation of the top source tree (bumped when it registers a change)
    runs,         \* number of lockFlake calls started so far
    pc,           \* "idle" | "solve" | "done" | "failed"
    lockFlags,    \* the LockFlags of the call in progress
    oldLockFile,  \* LockFile::read result of this call
    newLockFile,  \* the lock file being built
    stack,        \* the computeLocks calls in progress, innermost last
    flakeCache,   \* FlakeCache of this call
    parents,      \* the parents vector of this call
    updatesUsed,  \* the updatesUsed set of this call
    fetchLog,     \* every fetchTree call of this call, in order
    warnings,     \* the warn() calls of this call
    error,        \* "none" or the kind of the Error thrown
    wrote,        \* number of newLockFile.write calls of this call
    flake,        \* the Flake lockFlake holds (its lockedRef), as returned at the end
    last,         \* what the last computeLocks iteration decided (history)
    prev,         \* what the previous lockFlake call was given and produced (history)
    topRef,       \* the topRef of the call in progress
    caller,       \* how the call was made: by a caller of lockFlake or by prim_getFlake
    fetching,     \* the Input::fetchTree call under study: its input, the world's answers, its outcome
    unit          \* a function of the solver applied on its own: its name, arguments and result

vars == << world, disk, topGen, runs, pc, lockFlags, oldLockFile, newLockFile,
           stack, flakeCache, parents, updatesUsed, fetchLog, warnings, error,
           wrote, flake, last, prev, topRef, caller, fetching, unit >>

-----------------------------------------------------------------------------
(* Bounds *)

\* lockFlake calls per behaviour (the second call reads what the first wrote)
MaxRuns == 2

-----------------------------------------------------------------------------
(* Flake references.  A FlakeRef is a name; its scheme's answers are the    *)
(* tables below.                                                            *)

NoRef == "none"

TopRef == "top"

IndirectRefs == {"iA", "iB"}

\* a top flake pinned to a revision
PinnedTopRef == "gT1"

ImmutableRefs == {"gA1", "gA2", "gB0", "gB1", "gT1", "topC"}

Refs == {"top", "gT1", "iA", "iB", "gA", "gB", "gA1", "gA2", "gB0", "gB1", "dM"}

\* FlakeRef::input.isDirect()
IsDirect(ref) == ref \notin IndirectRefs

\* FlakeRef::input.isImmutable()
IsImmutable(ref) == ref \in ImmutableRefs

\* FlakeRef::resolve: the registry
Resolve(ref) == CASE ref = "iA" -> "gA"
                  [] ref = "iB" -> "gB"
                  [] OTHER -> ref

\* topRef.input.getSourcePath(): only a local path has one
HasSourcePath(ref) == ref = "top"

\* the locked reference the top source has in generation g: generation 0 is a
\* clean checkout, locked to its revision; the later ones are dirty trees
TopLockedRef(g) == CASE g = 0 -> "topC"
                     [] g = 1 -> "top0"
                     [] g = 2 -> "top1"
                     [] g = 3 -> "top2"
                     [] OTHER -> "top3"

\* the generation the top source starts in: a clean checkout in the "direct" world
FirstGen(w) == IF w = "direct" THEN 0 ELSE 1

\* FlakeRef::fetchTree: the locked reference of the fetched tree
FetchLocked(ref, g) == CASE ref = "top" -> TopLockedRef(g)
                         [] ref = "gA" -> "gA1"
                         [] ref = "gB" -> "gB1"
                         [] OTHER -> ref

-----------------------------------------------------------------------------
(* Input paths and their order (std::set<InputPath>, std::map<FlakeId,..>) *)

Ids == {"a", "b", "c"}

IdRank(id) == CASE id = "a" -> 1
                [] id = "b" -> 2
                [] OTHER -> 3

\* std::vector<std::string>::operator< : lexicographic
RECURSIVE PathLess(_, _)
PathLess(p, q) ==
    IF q = << >> THEN FALSE
    ELSE IF p = << >> THEN TRUE
    ELSE IF IdRank(Head(p)) < IdRank(Head(q)) THEN TRUE
    ELSE IF IdRank(Head(q)) < IdRank(Head(p)) THEN FALSE
    ELSE PathLess(Tail(p), Tail(q))

IsPrefix(p, q) == Len(p) <= Len(q) /\ SubSeq(q, 1, Len(p)) = p

IsStrictPrefix(p, q) == Len(p) < Len(q) /\ SubSeq(q, 1, Len(p)) = p

\* the keys of a std::map<FlakeId, ...> in iteration order
RECURSIVE SortedIds(_)
SortedIds(S) ==
    IF S = {} THEN << >>
    ELSE LET m == CHOOSE x \in S : \A y \in S : IdRank(x) <= IdRank(y)
         IN << m >> \o SortedIds(S \ {m})

-----------------------------------------------------------------------------
(* Flake inputs (FlakeInput) and lock nodes (LockedNode, follows edges)    *)

EmptyMap == << >>

FlakeInput(ref, isFlake, hasFollows, follows, absolute, overrides) ==
    [ ref |-> ref, isFlake |-> isFlake, hasFollows |-> hasFollows,
      follows |-> follows, absolute |-> absolute, overrides |-> overrides ]

\* FlakeInput(): the default-constructed input
DefaultInput == FlakeInput(NoRef, TRUE, FALSE, << >>, FALSE, EmptyMap)

RefInput(ref) == FlakeInput(ref, TRUE, FALSE, << >>, FALSE, EmptyMap)

FollowsInput(path) == FlakeInput(NoRef, TRUE, TRUE, path, FALSE, EmptyMap)

LockedNode(lockedRef, originalRef, isFlake) ==
    [ kind |-> "locked", lockedRef |-> lockedRef, originalRef |-> originalRef,
      isFlake |-> isFlake, target |-> << >> ]

FollowsEdge(target) ==
    [ kind |-> "follows", lockedRef |-> NoRef, originalRef |-> NoRef,
      isFlake |-> FALSE, target |-> target ]

(* A lock graph is a map from the InputPath of every edge below its root   *)
(* to the LockedNode or follows edge at that path.                        *)

\* the node below `tree` at `path`, as a graph of its own
Subtree(tree, path) ==
    LET below == { p \in DOMAIN tree : IsStrictPrefix(path, p) }
        rel == { SubSeq(p, Len(path) + 1, Len(p)) : p \in below }
    IN [ q \in rel |-> tree[path \o q] ]

\* the ids of the children of the root of `tree`
ChildIds(tree) == { p[1] : p \in { q \in DOMAIN tree : Len(q) = 1 } }

\* node->inputs.insert_or_assign(id, entry) for the node at Front(path)
Attach(tree, path, entry) ==
    LET kept == { p \in DOMAIN tree : ~IsPrefix(path, p) }
    IN [ p \in kept \cup {path} |-> IF p = path THEN entry ELSE tree[p] ]

NoNode == [ present |-> FALSE, tree |-> EmptyMap ]

NodeOf(tree) == [ present |-> TRUE, tree |-> tree ]


-----------------------------------------------------------------------------
(* The manifest parser: parseFlakeInput and parseFlakeInputs.  A declaration *)
(* is the attribute set of one input: which attributes it has, and their    *)
(* values.                                                                  *)

\* the indirect reference {type = "indirect", id = name}, which is also what
\* parseFlakeRef makes of a bare name
IndirectRef(name) == CASE name = "a" -> "iA"
                       [] name = "b" -> "iB"
                       [] OTHER -> "i:" \o name

NoAttr == "absent"

\* parseFlakeRef(url)
ParseFlakeRef(url) == CASE url = "git:A?rev=1" -> "gA1"
                        [] OTHER -> "gB1"

\* FlakeRef::fromAttrs(attrs), for attrs that carry a type
RefFromAttrs(url, extra) == IF extra THEN "gA2" ELSE "gA"

\* parseInputPath(s): the dotted string split
ParseInputPath(s) == CASE s = "b" -> << "b" >>
                       [] s = "a.b" -> << "a", "b" >>
                       [] OTHER -> << >>

\* declarations without nested inputs: url, type and one more string attribute
\* (rev), follows, flake
LeafDecls ==
    [ url : { NoAttr, "git:A?rev=1" }, type : BOOLEAN, extra : BOOLEAN,
      follows : { NoAttr, "b", "a.b" }, flake : { NoAttr, "true", "false" },
      inputs : { EmptyMap } ]

\* the `inputs` attribute of a declaration: nested declarations for an input zz
NestedDecls ==
    { EmptyMap } \cup
    { ("zz" :> d) : d \in { l \in LeafDecls : ~l.type /\ ~l.extra /\ l.flake = NoAttr
                                              /\ l.follows \in { NoAttr, "b" } } }

Decls == { [ l EXCEPT !.inputs = n ] : l \in LeafDecls, n \in NestedDecls }

Parsed(err, input) == [ err |-> err, input |-> input ]

\* flake.cc:185-198: input.ref from the scheme attributes and the url
declaredRef(d) ==
    IF d.type THEN Parsed("none", RefFromAttrs(d.url, d.extra))
    ELSE IF d.extra THEN Parsed("UnexpectedAttribute", NoRef)
    ELSE IF d.url # NoAttr THEN Parsed("none", ParseFlakeRef(d.url))
    ELSE Parsed("none", NoRef)

\* flake.cc:200-201
defaulted(ref, hasFollows, defaultRef, inputName) ==
    IF ~hasFollows /\ ref = NoRef /\ defaultRef THEN IndirectRef(inputName) ELSE ref

\* flake.cc:142-204, given the parsed nested inputs
parseFlakeInputWith(inputName, d, defaultRef, nested) ==
    IF \E id \in DOMAIN nested : nested[id].err # "none"
    THEN Parsed("UnexpectedAttribute", DefaultInput)
    ELSE IF declaredRef(d).err # "none"
    THEN Parsed(declaredRef(d).err, DefaultInput)
    ELSE Parsed("none",
                FlakeInput(defaulted(declaredRef(d).input, d.follows # NoAttr,
                                     defaultRef, inputName),
                           d.flake # "false",
                           d.follows # NoAttr,
                           IF d.follows = NoAttr THEN << >> ELSE ParseInputPath(d.follows),
                           FALSE,
                           [ id \in DOMAIN nested |-> nested[id].input ]))

\* parseFlakeInput(state, inputName, value, pos, defaultRef); the nested inputs
\* are parsed by parseFlakeInputs(..., false) (flake.cc:167-168)
RECURSIVE parseFlakeInput(_, _, _)
parseFlakeInput(inputName, d, defaultRef) ==
    parseFlakeInputWith(inputName, d, defaultRef,
                        [ id \in DOMAIN d.inputs |-> parseFlakeInput(id, d.inputs[id], FALSE) ])

-----------------------------------------------------------------------------
(* The universes the fetchers and the evaluator present.                   *)
(*   "follows": top declares a (as a formal of outputs) and b following    *)
(*              a/b; A declares                                            *)
(*              b (indirect) and c following its own b, and ships a lock;  *)
(*              the other revision of A declares c only.                   *)
(*   "direct":  top declares a and a non-flake b by immutable references.  *)
(*              and overrides an input zz of a, which a does not have.     *)
(*   "mutable": top declares a by a mutable reference and a non-flake b    *)
(*              whose tree locks to a mutable reference.                   *)
(*   "cycle":   A declares b, B declares a, both through the registry; an  *)
(*              older revision of B declares nothing.                      *)
(*   "bare":    top declares no input; its outputs function takes self     *)
(*              alone.                                                     *)

Worlds == {"follows", "direct", "mutable", "cycle", "bare"}

NonFlake(ref) == FlakeInput(ref, FALSE, FALSE, << >>, FALSE, EmptyMap)

\* an input declared with `inputs.zz.follows = "b"` beside its url: a nested
\* override, parsed without a default ref, of an input that no revision of A declares
OverridingInput(ref) ==
    FlakeInput(ref, TRUE, FALSE, << >>, FALSE, ("zz" :> FollowsInput(<< "b" >>)))

\* flake.inputs of the top flake, as getFlake parses them
\* the inputs attribute of the top flake.nix, parsed
TopInputsBlock(w) ==
    CASE w = "follows" -> ("b" :> FollowsInput(<< "a", "b" >>))
      [] w = "direct"  -> ("a" :> OverridingInput("gA1")) @@ ("b" :> NonFlake("gB1"))
      [] w = "mutable" -> ("a" :> RefInput("gA")) @@ ("b" :> NonFlake("dM"))
      [] OTHER         -> EmptyMap

\* the formals of the outputs function of the top flake.nix
TopFormals(w) ==
    CASE w \in {"follows", "cycle"} -> {"self", "a"}
      [] w = "direct" -> {"self", "a", "b"}
      [] OTHER -> {"self"}

\* the inputs attribute of the flake.nix in the tree `tree`, parsed
InputsBlock(w, tree) ==
    CASE tree \in {"topC", "top0", "top1", "top2", "top3", "gT1"} -> TopInputsBlock(w)
      [] w = "follows" /\ tree = "gA1" -> ("c" :> FollowsInput(<< "b" >>))
      [] w = "follows" /\ tree = "gA2" -> ("c" :> RefInput("gB"))
      [] w \in {"direct", "mutable"} /\ tree \in {"gA1", "gA2"} -> ("b" :> RefInput("gB1"))
      [] OTHER -> EmptyMap

\* the formals of the outputs function of the flake.nix in the tree `tree`
OutputsFormals(w, tree) ==
    CASE tree \in {"topC", "top0", "top1", "top2", "top3", "gT1"} -> TopFormals(w)
      [] w = "follows" /\ tree = "gA1" -> {"self", "b"}
      [] w = "cycle" /\ tree \in {"gA1", "gA2"} -> {"self", "b"}
      [] w = "cycle" /\ tree = "gB1" -> {"self", "a"}
      [] OTHER -> {"self"}

\* the inputs attribute alone
withoutFormals(inputs, formals) == inputs

\* flake.cc:275-282: each formal other than self is emplaced as an input with
\* the indirect reference of its name; emplace leaves a declared input alone
withFormals(inputs, formals) ==
    [ id \in DOMAIN inputs \cup (formals \ {"self"}) |->
        IF id \in DOMAIN inputs THEN inputs[id] ELSE RefInput(IndirectRef(id)) ]

\* flake.inputs of the flake in the tree `tree`, as getFlake parses them
Manifest(w, tree) == withFormals(InputsBlock(w, tree), OutputsFormals(w, tree))

\* flake.inputs of the top flake
TopInputs(w) == Manifest(w, "topC")

\* pathExists(flakeFile): the tree holds a flake.nix
HasFlakeNix(tree) == tree # "dM"

\* the flake.lock an input's own tree holds (empty when absent)
OwnLock(w, tree) ==
    CASE w = "follows" /\ tree = "gA1" ->
            (<< "b" >> :> LockedNode("gB1", "iB", TRUE)) @@
            (<< "c" >> :> FollowsEdge(<< "b" >>))
      [] OTHER -> EmptyMap

\* the lock file a complete solve of the "follows" world produces
FollowsLock ==
    (<< "a" >> :> LockedNode("gA1", "iA", TRUE)) @@
    (<< "a", "b" >> :> LockedNode("gB1", "iB", TRUE)) @@
    (<< "a", "c" >> :> FollowsEdge(<< "a", "b" >>)) @@
    (<< "b" >> :> FollowsEdge(<< "a", "b" >>))

\* the lock file a complete solve of the "direct" world produces
DirectLock ==
    (<< "a" >> :> LockedNode("gA1", "gA1", TRUE)) @@
    (<< "a", "b" >> :> LockedNode("gB1", "gB1", TRUE)) @@
    (<< "b" >> :> LockedNode("gB1", "gB1", FALSE))

\* a lock file of the "direct" world from before b was declared
PartialLock ==
    (<< "a" >> :> LockedNode("gA1", "gA1", TRUE)) @@
    (<< "a", "b" >> :> LockedNode("gB1", "gB1", TRUE))

\* a flake.lock of the "mutable" world that a hand has pinned b to a mutable
\* reference in
MutableLock ==
    (<< "a" >> :> LockedNode("gA1", "gA", TRUE)) @@
    (<< "a", "b" >> :> LockedNode("gB1", "gB1", TRUE)) @@
    (<< "b" >> :> LockedNode("dM", "dM", FALSE))

\* the lock file a complete solve of the "cycle" world produced when the registry
\* still named the revision of B that declares no inputs
CycleLock ==
    (<< "a" >> :> LockedNode("gA1", "iA", TRUE)) @@
    (<< "a", "b" >> :> LockedNode("gB0", "iB", TRUE))

\* the flake.lock the pinned revision of the top flake ships
PinnedTopLock(w) ==
    CASE w = "follows" -> FollowsLock
      [] w = "direct"  -> PartialLock
      [] w = "cycle"   -> CycleLock
      [] OTHER         -> EmptyMap

\* the flake.lock files that may lie beside the top flake.nix at the start
DiskChoices(w) ==
    CASE w = "follows" -> { EmptyMap, FollowsLock }
      [] w = "direct"  -> { EmptyMap, DirectLock, PartialLock }
      [] w = "mutable" -> { EmptyMap, MutableLock }
      [] w = "cycle"   -> { EmptyMap, CycleLock }
      [] OTHER         -> { EmptyMap, PartialLock }

-----------------------------------------------------------------------------
(* Override trees                                                          *)

MapPut(m, k, v) == [ x \in DOMAIN m \cup {k} |-> IF x = k THEN v ELSE m[x] ]

MapRemove(m, k) == [ x \in DOMAIN m \ {k} |-> m[x] ]

\* setOverride(overrides, path, ref)
RECURSIVE setOverride(_, _, _)
setOverride(overrides, path, ref) ==
    LET id == Head(path)
        cur == IF id \in DOMAIN overrides THEN overrides[id] ELSE DefaultInput
        new == IF Len(path) = 1
               THEN [ cur EXCEPT !.ref = ref ]
               ELSE [ cur EXCEPT !.overrides = setOverride(cur.overrides, Tail(path), ref) ]
    IN MapPut(overrides, id, new)

\* the loop over lockFlags.inputOverrides that builds the root override tree
RECURSIVE BuildOverrides(_, _)
BuildOverrides(inputOverrides, todo) ==
    IF todo = {} THEN EmptyMap
    ELSE LET p == CHOOSE x \in todo : \A y \in todo : x = y \/ PathLess(y, x)
         IN setOverride(BuildOverrides(inputOverrides, todo \ {p}), p, inputOverrides[p])

\* FlakeInput::setOverrides, on the overrides map of the input
RECURSIVE setOverrides(_, _)
setOverrides(overrides, newOverrides) ==
    [ id \in DOMAIN overrides \cup DOMAIN newOverrides |->
        IF id \notin DOMAIN newOverrides THEN overrides[id]
        ELSE IF id \notin DOMAIN overrides THEN newOverrides[id]
        ELSE [ overrides[id] EXCEPT
                 !.ref = IF newOverrides[id].ref # NoRef THEN newOverrides[id].ref ELSE @,
                 !.overrides = setOverrides(@, newOverrides[id].overrides) ] ]

\* printOverrides: the (path, ref) pairs the warning text lists
RECURSIVE printOverrides(_, _)
printOverrides(overrides, inputPathPrefix) ==
    UNION { (IF overrides[id].ref # NoRef
             THEN { [ path |-> inputPathPrefix \o << id >>, ref |-> overrides[id].ref ] }
             ELSE {})
            \cup printOverrides(overrides[id].overrides, inputPathPrefix \o << id >>)
          : id \in DOMAIN overrides }

-----------------------------------------------------------------------------
(* The fetch cache and the manifest loader                                 *)

\* lookupInFlakeCache: the first entry whose key equals flakeRef
lookupInFlakeCache(cache, flakeRef) ==
    LET hits == { i \in 1..Len(cache) : cache[i].key = flakeRef }
    IN IF hits = {} THEN [ found |-> FALSE, tree |-> NoRef, lockedRef |-> NoRef ]
       ELSE LET i == CHOOSE x \in hits : \A y \in hits : x <= y
            IN [ found |-> TRUE, tree |-> cache[i].tree, lockedRef |-> cache[i].lockedRef ]

\* one fetchTree call: the reference fetched, and the input path it was fetched for
LogEntry(ref, at) == [ ref |-> ref, at |-> at ]

CacheEntry(key, tree, lockedRef) == [ key |-> key, tree |-> tree, lockedRef |-> lockedRef ]

\* FlakeRef::fetchTree: the tree (named by its locked reference) and the locked reference
fetchTree(ref, g) == [ tree |-> FetchLocked(ref, g), lockedRef |-> FetchLocked(ref, g) ]

\* what fetchOrSubstituteTree and getFlake hand back, with the cache and the log after
Fetched(err, tree, resolvedRef, lockedRef, cache, log) ==
    [ err |-> err, tree |-> tree, resolvedRef |-> resolvedRef, lockedRef |-> lockedRef,
      cache |-> cache, log |-> log ]

\* flake.cc:100 and 113: a direct reference that is not in the cache
fetchDirect(originalRef, f, cache, log, at) ==
    Fetched("none", f.tree, originalRef, f.lockedRef,
            Append(cache, CacheEntry(originalRef, f.tree, f.lockedRef)),
            Append(log, LogEntry(originalRef, at)))

\* flake.cc:105-107 and 113: an indirect reference that is not in the cache, resolved
fetchResolved(originalRef, resolvedRef, fetchedResolved, f, cache, log, at) ==
    IF fetchedResolved.found
    THEN Fetched("none", fetchedResolved.tree, resolvedRef, fetchedResolved.lockedRef,
                 cache \o << CacheEntry(resolvedRef, fetchedResolved.tree,
                                        fetchedResolved.lockedRef),
                             CacheEntry(originalRef, fetchedResolved.tree,
                                        fetchedResolved.lockedRef) >>,
                 log)
    ELSE Fetched("none", f.tree, resolvedRef, f.lockedRef,
                 cache \o << CacheEntry(resolvedRef, f.tree, f.lockedRef),
                             CacheEntry(originalRef, f.tree, f.lockedRef) >>,
                 Append(log, LogEntry(resolvedRef, at)))

\* fetchOrSubstituteTree resolving an indirect reference whatever allowLookup says
fetchMissedResolving(originalRef, allowLookup, cache, log, at, g) ==
    IF IsDirect(originalRef)
    THEN fetchDirect(originalRef, fetchTree(originalRef, g), cache, log, at)
    ELSE fetchResolved(originalRef, Resolve(originalRef),
                       lookupInFlakeCache(cache, originalRef),
                       fetchTree(Resolve(originalRef), g), cache, log, at)

\* flake.cc:98-114: originalRef is not in the cache
fetchMissed(originalRef, allowLookup, cache, log, at, g) ==
    IF IsDirect(originalRef)
    THEN fetchDirect(originalRef, fetchTree(originalRef, g), cache, log, at)
    ELSE IF allowLookup
    THEN \* flake.cc:104 looks the original reference up again, not the resolved one
         fetchResolved(originalRef, Resolve(originalRef),
                       lookupInFlakeCache(cache, originalRef),
                       fetchTree(Resolve(originalRef), g), cache, log, at)
    ELSE Fetched("RegistryLookupDisallowed", NoRef, originalRef, NoRef, cache, log)

\* fetchOrSubstituteTree fetching whatever the cache holds
fetchDespiteCache(originalRef, fetched, allowLookup, cache, log, at, g) ==
    fetchMissed(originalRef, allowLookup, cache, log, at, g)

\* flake.cc:95-97 and 116-126, given the result of the first cache lookup
fetchLookedUp(originalRef, fetched, allowLookup, cache, log, at, g) ==
    IF fetched.found
    THEN Fetched("none", fetched.tree, originalRef, fetched.lockedRef, cache, log)
    ELSE fetchMissed(originalRef, allowLookup, cache, log, at, g)

\* fetchOrSubstituteTree(state, originalRef, allowLookup, flakeCache)
fetchOrSubstituteTree(originalRef, allowLookup, cache, log, at, g) ==
    fetchLookedUp(originalRef, lookupInFlakeCache(cache, originalRef),
                  allowLookup, cache, log, at, g)

\* flake.cc:235-297: getFlake once the tree is there
getFlakeFrom(t, w) ==
    [ err |-> IF t.err # "none" THEN t.err
              ELSE IF ~HasFlakeNix(t.tree) THEN "NoFlakeNix" ELSE "none",
      lockedRef |-> t.lockedRef, tree |-> t.tree,
      inputs |-> IF t.err = "none" /\ HasFlakeNix(t.tree)
                 THEN Manifest(w, t.tree) ELSE EmptyMap,
      cache |-> t.cache, log |-> t.log ]

\* getFlake(state, originalRef, allowLookup, flakeCache)
getFlake(originalRef, allowLookup, cache, log, at, w, g) ==
    getFlakeFrom(fetchOrSubstituteTree(originalRef, allowLookup, cache, log, at, g), w)

-----------------------------------------------------------------------------
(* The lock file model                                                     *)

\* LockFile::check: every follows edge names an input of the graph (or the root)
LockFileCheck(tree) ==
    \A p \in DOMAIN tree :
        tree[p].kind = "follows" =>
            (tree[p].target = << >> \/ tree[p].target \in DOMAIN tree)

\* LockFile::isImmutable
LockFileIsImmutable(tree) ==
    \A p \in DOMAIN tree : tree[p].kind = "locked" => IsImmutable(tree[p].lockedRef)

\* LockFile::read of the file `file`: a LockedNode owns an immutable lockedRef, so
\* a file that pins an input to a mutable reference does not parse
LockFileRead(file) ==
    IF LockFileIsImmutable(file)
    THEN [ err |-> "none", tree |-> file ]
    ELSE [ err |-> "MalformedLock", tree |-> EmptyMap ]


-----------------------------------------------------------------------------
(* LockFlags of a call                                                     *)

OverrideChoices ==
    { EmptyMap,
      (<< "a" >> :> "gA2"),
      (<< "a", "b" >> :> "gB"),
      (<< "c" >> :> "gA2"),
      (<< "b", "c" >> :> "gB") }

UpdateChoices == { {}, { << "a" >> }, { << "a", "b" >> }, { << "b" >> } }

FlagChoices ==
    [ useRegistries : BOOLEAN, writeLockFile : BOOLEAN, updateLockFile : BOOLEAN,
      allowMutable : BOOLEAN, recreateLockFile : BOOLEAN,
      inputOverrides : OverrideChoices, inputUpdates : UpdateChoices ]

NoFlags ==
    [ useRegistries |-> FALSE, writeLockFile |-> FALSE, updateLockFile |-> FALSE,
      allowMutable |-> FALSE, recreateLockFile |-> FALSE,
      inputOverrides |-> EmptyMap, inputUpdates |-> {} ]

-----------------------------------------------------------------------------
(* The solver                                                              *)

\* one call of computeLocks in progress
Frame(flakeInputs, inputPathPrefix, oldNode, overrides, popParent) ==
    [ flakeInputs |-> flakeInputs, todo |-> SortedIds(DOMAIN flakeInputs),
      prefix |-> inputPathPrefix, oldNode |-> oldNode, overrides |-> overrides,
      popParent |-> popParent ]

NoLast ==
    [ path |-> << >>, branch |-> "none", hasOverride |-> FALSE, refOverridden |-> FALSE,
      declaredRef |-> NoRef, inputRef |-> NoRef, isFlake |-> FALSE,
      oldNodePresent |-> FALSE, oldKind |-> "none", oldOriginalRef |-> NoRef,
      oldLockedRef |-> NoRef, inUpdates |-> FALSE, hasChildUpdate |-> FALSE,
      follows |-> << >>, absolute |-> FALSE, prefix |-> << >>,
      fetchesBefore |-> 0, lockBefore |-> EmptyMap, parentsBefore |-> << >>,
      cacheBefore |-> << >>, pushed |-> FALSE, err |-> "none" ]

NoPrev == [ valid |-> FALSE, ok |-> FALSE, flags |-> NoFlags, lockFile |-> EmptyMap,
            wrote |-> 0, flake |-> NoRef ]

\* the value read from `bool hasOverride;` when no override assigned it (flake.cc:364)
UninitializedBool == BOOLEAN

\* flake.cc:362-373: the input after the matching override, if any, was applied
overriddenInput(originalInput, overrides, id) ==
    IF id \in DOMAIN overrides
    THEN [ originalInput EXCEPT
             !.ref = IF overrides[id].ref # NoRef THEN overrides[id].ref ELSE @,
             !.overrides = setOverrides(@, overrides[id].overrides) ]
    ELSE originalInput

\* flake.cc:364-371: hasOverride is assigned only when the override carries a ref
hasOverrideValue(overrides, id, uninit) ==
    IF id \in DOMAIN overrides /\ overrides[id].ref # NoRef THEN TRUE ELSE uninit

\* flake.cc:363: `input` is a reference to `originalInput`, so what is assigned to
\* input.ref is what originalInput.ref reads afterwards
originalInputAfterOverride(originalInput, input) == input

\* the test made on the first element of inputUpdates instead of the lower bound
hasChildUpdateAtBegin(inputUpdates, inputPath) ==
    IF inputUpdates = {} THEN FALSE
    ELSE LET lb == CHOOSE u \in inputUpdates : \A v \in inputUpdates : u = v \/ PathLess(u, v)
         IN Len(lb) > Len(inputPath) /\ SubSeq(lb, 1, Len(inputPath)) = inputPath

\* flake.cc:423-428
hasChildUpdate(inputUpdates, inputPath) ==
    LET geq == { u \in inputUpdates : ~PathLess(u, inputPath) }
    IN IF geq = {} THEN FALSE
       ELSE LET lb == CHOOSE u \in geq : \A v \in geq : u = v \/ PathLess(u, v)
            IN Len(lb) > Len(inputPath) /\ SubSeq(lb, 1, Len(inputPath)) = inputPath

\* flake.cc:439-453
fakeInputs(oldLockTree) ==
    [ id \in ChildIds(oldLockTree) |->
        LET e == oldLockTree[<< id >>]
        IN IF e.kind = "locked"
           THEN FlakeInput(e.originalRef, e.isFlake, FALSE, << >>, FALSE, EmptyMap)
           ELSE FlakeInput(NoRef, TRUE, TRUE, e.target, TRUE, EmptyMap) ]

\* the pure-mode test left out
MutableNeverRejected(flags, ref) == FALSE

\* the pure-mode test made on the wrong property of the reference
MutableRejectedIfIndirect(flags, ref) == ~flags.allowMutable /\ ~IsDirect(ref)

\* flake.cc:463: the pure-mode test of the fresh path
MutableRejected(flags, ref) == ~flags.allowMutable /\ ~IsImmutable(ref)

\* get(oldNode->inputs, id): "none", "locked" or "follows"
oldKindOf(oldNode, id) ==
    IF oldNode.present /\ << id >> \in DOMAIN oldNode.tree
    THEN oldNode.tree[<< id >>].kind ELSE "none"

oldChildOf(oldNode, id) ==
    IF oldNode.present /\ << id >> \in DOMAIN oldNode.tree
    THEN oldNode.tree[<< id >>] ELSE FollowsEdge(<< >>)

\* flake.cc:401-404: oldLock is set
haveOldLock(oldNode, id, inputPath, flags) ==
    oldNode.present /\ inputPath \notin flags.inputUpdates /\ oldKindOf(oldNode, id) = "locked"

\* the locals of one iteration of the loop of computeLocks (flake.cc:356-404)
iterationLocals(fr, id, uninit, flags) ==
    [ id |-> id,
      prefix |-> fr.prefix,
      inputPath |-> fr.prefix \o << id >>,
      originalInput |-> fr.flakeInputs[id],
      input |-> overriddenInput(fr.flakeInputs[id], fr.overrides, id),
      refOverridden |-> id \in DOMAIN fr.overrides /\ fr.overrides[id].ref # NoRef,
      hasOverride |-> hasOverrideValue(fr.overrides, id, uninit),
      overridesLeft |-> MapRemove(fr.overrides, id),
      oldNodePresent |-> fr.oldNode.present,
      oldKind |-> oldKindOf(fr.oldNode, id),
      oldChild |-> oldChildOf(fr.oldNode, id),
      inUpdates |-> (fr.prefix \o << id >>) \in flags.inputUpdates,
      haveOldLock |-> haveOldLock(fr.oldNode, id, fr.prefix \o << id >>, flags),
      oldLockTree |-> Subtree(fr.oldNode.tree, << id >>),
      childUpdate |-> hasChildUpdate(flags.inputUpdates, fr.prefix \o << id >>) ]

\* the solver state one iteration reads and writes
SolverState(lock, cache, log, par, used) ==
    [ lock |-> lock, cache |-> cache, log |-> log, parents |-> par, updatesUsed |-> used ]

\* what one iteration leaves behind: the error thrown (or "none"), the solver state,
\* the computeLocks call it makes (push), and the record of what it decided
Outcome(c, s, err, branch, lock2, push, cache2, log2, par2, used2, cu) ==
    [ err |-> err, lock |-> lock2, push |-> push, cache |-> cache2, log |-> log2,
      parents |-> par2, updatesUsed |-> used2, overrides |-> c.overridesLeft,
      input |-> c.input,
      last |-> [ path |-> c.inputPath, branch |-> branch, hasOverride |-> c.hasOverride,
                 refOverridden |-> c.refOverridden, declaredRef |-> c.originalInput.ref,
                 inputRef |-> c.input.ref, isFlake |-> c.input.isFlake,
                 oldNodePresent |-> c.oldNodePresent, oldKind |-> c.oldKind,
                 oldOriginalRef |-> c.oldChild.originalRef,
                 oldLockedRef |-> c.oldChild.lockedRef, inUpdates |-> c.inUpdates,
                 hasChildUpdate |-> cu, follows |-> c.input.follows,
                 absolute |-> c.input.absolute, prefix |-> c.prefix,
                 fetchesBefore |-> Len(s.log), lockBefore |-> s.lock,
                 parentsBefore |-> s.parents, cacheBefore |-> s.cache,
                 pushed |-> push # << >>, err |-> err ] ]

\* flake.cc:378-387: the target of a follows input
followsTarget(c) ==
    IF c.hasOverride \/ c.input.absolute
    THEN c.input.follows
    ELSE c.prefix \o c.input.follows

\* flake.cc:377-391
followsBranch(c, s) ==
    Outcome(c, s, "none", "follows",
            Attach(s.lock, c.inputPath, FollowsEdge(followsTarget(c))),
            << >>, s.cache, s.log, s.parents, s.updatesUsed, FALSE)

\* flake.cc:406-408: the test that keeps the existing input
keepsExisting(c) ==
    c.haveOldLock /\ c.oldChild.originalRef = c.input.ref /\ ~c.hasOverride

\* flake.cc:415-418: the node copied from the old lock
copiedNode(oldLock) == LockedNode(oldLock.lockedRef, oldLock.originalRef, oldLock.isFlake)

\* flake.cc:430-433: the input has an --update-input below it
reuseWithUpdate(c, s, gf, lock2, used2) ==
    IF gf.err # "none"
    THEN Outcome(c, s, gf.err, "reuse", lock2, << >>, gf.cache, gf.log,
                 s.parents, used2, TRUE)
    ELSE Outcome(c, s, "none", "reuse", lock2,
                 << Frame(gf.inputs, c.inputPath, NodeOf(c.oldLockTree),
                          c.input.overrides, FALSE) >>,
                 gf.cache, gf.log, s.parents, used2, TRUE)

\* flake.cc:434-456: no need to fetch this flake
reuseLazily(c, s, lock2, used2) ==
    Outcome(c, s, "none", "reuse", lock2,
            << Frame(fakeInputs(c.oldLockTree), c.inputPath, NodeOf(c.oldLockTree),
                     c.input.overrides, FALSE) >>,
            s.cache, s.log, s.parents, used2, FALSE)

\* flake.cc:409-457
reuseBranch(c, s, w, g) ==
    IF c.childUpdate
    THEN reuseWithUpdate(c, s,
             getFlake(c.oldChild.lockedRef, FALSE, s.cache, s.log, c.inputPath, w, g),
             Attach(s.lock, c.inputPath, copiedNode(c.oldChild)),
             s.updatesUsed \cup { c.inputPath })
    ELSE reuseLazily(c, s, Attach(s.lock, c.inputPath, copiedNode(c.oldChild)),
                     s.updatesUsed \cup { c.inputPath })

\* flake.cc:476-477: the "original" field of a new flake node
freshOriginalRef(originalInput, input) ==
    IF originalInputAfterOverride(originalInput, input).ref # NoRef
    THEN originalInputAfterOverride(originalInput, input).ref
    ELSE input.ref

\* flake.cc:492-498: the baseline the inputs of a new flake node are solved against
freshBaseline(c, tree, w) ==
    IF c.haveOldLock THEN NodeOf(c.oldLockTree)
    ELSE NodeOf(LockFileRead(OwnLock(w, tree)).tree)

\* no cycle guard
neverOnParentsStack(par, ref) == FALSE

\* the cycle guard comparing with the innermost parent only
innermostParentOnly(par, ref) == par # << >> /\ par[Len(par)] = ref

\* flake.cc:481-484: the cycle guard
onParentsStack(par, ref) == \E i \in 1..Len(par) : par[i] = ref

\* flake.cc:466-499
freshFlake(c, s, gf, lock2, used2, w) ==
    IF gf.err # "none"
    THEN Outcome(c, s, gf.err, "fresh", s.lock, << >>, gf.cache, gf.log,
                 s.parents, used2, FALSE)
    ELSE IF onParentsStack(s.parents, c.input.ref)
    THEN Outcome(c, s, "CircularImport", "fresh", lock2, << >>, gf.cache, gf.log,
                 s.parents, used2, FALSE)
    ELSE Outcome(c, s, "none", "fresh", lock2,
                 << Frame(gf.inputs, c.inputPath, freshBaseline(c, gf.tree, w),
                          c.input.overrides, TRUE) >>,
                 gf.cache, gf.log, Append(s.parents, c.input.ref), used2, FALSE)

\* flake.cc:501-506
freshNonFlake(c, s, t, used2) ==
    IF t.err # "none"
    THEN Outcome(c, s, t.err, "fresh", s.lock, << >>, t.cache, t.log,
                 s.parents, used2, FALSE)
    ELSE Outcome(c, s, "none", "fresh",
                 Attach(s.lock, c.inputPath, LockedNode(t.lockedRef, c.input.ref, FALSE)),
                 << >>, t.cache, t.log, s.parents, used2, FALSE)

\* flake.cc:466-467 and 476-479: fetch the flake and attach its node
freshFlakeFetched(c, s, gf, flags, w) ==
    freshFlake(c, s, gf,
               Attach(s.lock, c.inputPath,
                      LockedNode(gf.lockedRef,
                                 freshOriginalRef(c.originalInput, c.input), TRUE)),
               s.updatesUsed \cup { c.inputPath }, w)

\* flake.cc:458-507
freshBranch(c, s, flags, w, g) ==
    IF MutableRejected(flags, c.input.ref)
    THEN Outcome(c, s, "MutableInPureMode", "fresh", s.lock, << >>, s.cache, s.log,
                 s.parents, s.updatesUsed \cup { c.inputPath }, FALSE)
    ELSE IF c.input.isFlake
    THEN freshFlakeFetched(c, s,
             getFlake(c.input.ref, flags.useRegistries, s.cache, s.log, c.inputPath, w, g),
             flags, w)
    ELSE freshNonFlake(c, s,
             fetchOrSubstituteTree(c.input.ref, flags.useRegistries, s.cache, s.log,
                                   c.inputPath, g),
             s.updatesUsed \cup { c.inputPath })

\* flake.cc:375-507: what the iteration does with its locals
iterationBody(c, s, flags, w, g) ==
    IF c.input.hasFollows
    THEN followsBranch(c, s)
    ELSE IF c.input.ref = NoRef
    THEN Outcome(c, s, "AssertionFailed", "none", s.lock, << >>, s.cache, s.log,
                 s.parents, s.updatesUsed, FALSE)
    ELSE IF keepsExisting(c)
    THEN reuseBranch(c, s, w, g)
    ELSE freshBranch(c, s, flags, w, g)

\* flake.cc:356-507: one iteration of the loop of computeLocks, for the first input
\* still to do of frame `fr`; `uninit` is what an unassigned hasOverride reads as
computeLocksStep(fr, uninit, flags, s, w, g) ==
    iterationBody(iterationLocals(fr, Head(fr.todo), uninit, flags), s, flags, w, g)

\* the parents vector left as it is when an Error passes through
notUnwound(par, st) == par

\* the parents vector after every Finally of the frames in `st` has run
Unwound(par, st) ==
    SubSeq(par, 1, Len(par) - Cardinality({ i \in 1..Len(st) : st[i].popParent }))


-----------------------------------------------------------------------------
(* The state machine                                                       *)

\* no call was made yet
-----------------------------------------------------------------------------
(* Input::fetchTree (libfetchers).  An input may carry the NAR hash its     *)
(* tree is expected to have; the store and the input's scheme answer as     *)
(* recorded in the request.                                                 *)

NoHash == "none"

Hashes == {"h1", "h2"}

OptHashes == Hashes \cup {NoHash}

NoFetch == [ narHash |-> NoHash, substitutable |-> FALSE, treeInfo |-> NoHash,
             pathInfo |-> NoHash, inputHash |-> NoHash,
             outcome |-> "off", tree |-> NoHash, by |-> "none" ]

\* narHash: the hash the input carries; substitutable: ensurePath of the
\* fixed-output path succeeds; treeInfo, inputHash: tree.info.narHash and
\* input->narHash as fetchTreeInternal returns them; pathInfo: what
\* queryPathInfo says of the fetched store path
FetchRequests ==
    { [ narHash |-> h, substitutable |-> s, treeInfo |-> ti, pathInfo |-> pi,
        inputHash |-> ih, outcome |-> "pending", tree |-> NoHash, by |-> "none" ] :
        h \in OptHashes, s \in BOOLEAN, ti \in OptHashes, pi \in Hashes, ih \in OptHashes }

\* what reading an empty std::optional may come to while the message of the
\* Error is built: the Error is thrown with a garbage hash, or the process dies
EmptyOptionalRead == {"HashMismatch", "crash"}

\* Input::substituteTree: the tree of the fixed-output path made from narHash
substituteTree(f) ==
    IF f.substitutable
    THEN [ err |-> "none", narHash |-> f.narHash ]
    ELSE [ err |-> "Error", narHash |-> NoHash ]

\* the NAR hash of the tree after a real fetch
fetchedNarHash(f) ==
    IF f.treeInfo = NoHash THEN f.pathInfo ELSE f.treeInfo

fetchTreeReturns(f, hash, how) ==
    [ f EXCEPT !.outcome = "returned", !.tree = hash, !.by = how ]

fetchTreeEnds(f, how) ==
    [ f EXCEPT !.outcome = how ]

\* Input::fetchTree after substitution was not tried or has failed
fetchTreeInternalChecked(f, read) ==
    IF f.inputHash # NoHash /\ f.inputHash # fetchedNarHash(f)
    THEN fetchTreeEnds(f, "AssertionFailure")
    ELSE IF f.narHash # NoHash /\ f.narHash # f.inputHash
    THEN fetchTreeEnds(f, IF f.inputHash = NoHash THEN read ELSE "HashMismatch")
    ELSE fetchTreeReturns(f, fetchedNarHash(f), "fetch")

\* Input::fetchTree
InputFetchTree(f, read) ==
    IF f.narHash # NoHash /\ substituteTree(f).err = "none"
    THEN fetchTreeReturns(f, substituteTree(f).narHash, "substitution")
    ELSE fetchTreeInternalChecked(f, read)

NoCaller == [ via |-> "none", pureEval |-> FALSE ]

NoUnit == [ fn |-> "none" ]

Init ==
    /\ world \in Worlds
    /\ disk \in DiskChoices(world)
    /\ topGen = FirstGen(world)
    /\ runs = 0
    /\ pc = "idle"
    /\ lockFlags = NoFlags
    /\ oldLockFile = EmptyMap
    /\ newLockFile = EmptyMap
    /\ stack = << >>
    /\ flakeCache = << >>
    /\ parents = << >>
    /\ updatesUsed = {}
    /\ fetchLog = << >>
    /\ warnings = {}
    /\ error = "none"
    /\ wrote = 0
    /\ flake = NoRef
    /\ last = NoLast
    /\ prev = NoPrev
    /\ topRef = TopRef
    /\ caller = NoCaller
    /\ fetching = NoFetch
    /\ unit = NoUnit

\* the LockFlags a call may be given: anything for the first call; a later call
\* repeats the flags of the call before it, with or without its input overrides
FlagsOffered ==
    IF runs = 0 THEN FlagChoices
    ELSE { lockFlags, [ lockFlags EXCEPT !.inputOverrides = EmptyMap ] }

\* the flake.lock in the tree of the top flake `ref`
TopLockOnDisk(ref) == IF ref = TopRef THEN disk ELSE PinnedTopLock(world)

\* flake.cc:308-334 and the call at 516-519: lockFlake(state, ref, flags) up to the
\* root traversal
lockFlakeBegin(ref, flags) ==
    LET gf == getFlake(ref, flags.useRegistries, << >>, << >>, << >>, world, topGen)
        old == LockFileRead(TopLockOnDisk(ref))
        err == IF gf.err # "none" THEN gf.err ELSE old.err
        overrides == BuildOverrides(flags.inputOverrides, DOMAIN flags.inputOverrides)
    IN /\ lockFlags' = flags
       /\ topRef' = ref
       /\ flakeCache' = gf.cache
       /\ fetchLog' = gf.log
       /\ flake' = gf.lockedRef
       /\ oldLockFile' = IF err = "none" THEN old.tree ELSE EmptyMap
       /\ IF err = "none"
          THEN /\ pc' = "solve"
               /\ error' = "none"
               /\ stack' = << Frame(gf.inputs, << >>,
                                    IF flags.recreateLockFile THEN NoNode
                                    ELSE NodeOf(old.tree),
                                    overrides, FALSE) >>
          ELSE /\ pc' = "failed"
               /\ error' = err
               /\ stack' = << >>

\* a call begins: the call before it becomes history, the per-call state is fresh
callBegins ==
    /\ runs' = runs + 1
    /\ prev' = IF runs = 0 THEN NoPrev
               ELSE [ valid |-> TRUE, ok |-> pc = "done", flags |-> lockFlags,
                      lockFile |-> newLockFile, wrote |-> wrote, flake |-> flake ]
    /\ newLockFile' = EmptyMap
    /\ parents' = << >>
    /\ updatesUsed' = {}
    /\ warnings' = {}
    /\ wrote' = 0
    /\ last' = NoLast
    /\ UNCHANGED << world, disk, topGen, fetching, unit >>

\* lockFlake is called on the top flake in the working tree
LockFlakeStart ==
    /\ pc \in {"idle", "done", "failed"}
    /\ runs < MaxRuns
    /\ caller.via \in {"none", "lockFlake"}
    /\ \E flags \in FlagsOffered : lockFlakeBegin(TopRef, flags)
    /\ caller' = [ via |-> "lockFlake", pureEval |-> FALSE ]
    /\ callBegins

\* the pure-mode test of prim_getFlake left out
getFlakeNeverRefused(pureEval, flakeRef) == FALSE

\* flake.cc:631: prim_getFlake refuses a mutable reference in pure evaluation
getFlakeRefused(pureEval, flakeRef) == pureEval /\ ~IsImmutable(flakeRef)

\* prim_getFlake passing the flags of an impure evaluation whatever pureEval is
getFlakeLockFlagsImpure(pureEval, writeDefault) ==
    [ NoFlags EXCEPT !.updateLockFile = FALSE,
                     !.useRegistries = TRUE,
                     !.allowMutable = TRUE,
                     !.writeLockFile = writeDefault ]

\* flake.cc:636-640: the LockFlags prim_getFlake passes; writeLockFile is left at
\* the default of LockFlags
getFlakeLockFlags(pureEval, writeDefault) ==
    [ NoFlags EXCEPT !.updateLockFile = FALSE,
                     !.useRegistries = ~pureEval,
                     !.allowMutable = ~pureEval,
                     !.writeLockFile = writeDefault ]

\* the calls of builtins.getFlake an expression may make: any for the first call;
\* a later call repeats the one before it
GetFlakeOffered ==
    IF runs = 0 THEN [ pureEval : BOOLEAN, flakeRef : { TopRef, PinnedTopRef },
                       writeDefault : BOOLEAN ]
    ELSE { [ pureEval |-> caller.pureEval, flakeRef |-> topRef,
             writeDefault |-> lockFlags.writeLockFile ] }

\* flake.cc:627-642: prim_getFlake, up to the root traversal of its lockFlake call
PrimGetFlake ==
    /\ pc \in {"idle", "done", "failed"}
    /\ runs < MaxRuns
    /\ caller.via \in {"none", "getFlake"}
    /\ \E call \in GetFlakeOffered :
        /\ caller' = [ via |-> "getFlake", pureEval |-> call.pureEval ]
        /\ IF getFlakeRefused(call.pureEval, call.flakeRef)
           THEN /\ pc' = "failed"
                /\ error' = "MutableInPureMode"
                /\ topRef' = call.flakeRef
                /\ lockFlags' = getFlakeLockFlags(call.pureEval, call.writeDefault)
                /\ flakeCache' = << >>
                /\ fetchLog' = << >>
                /\ stack' = << >>
                /\ oldLockFile' = EmptyMap
                /\ flake' = NoRef
           ELSE lockFlakeBegin(call.flakeRef,
                               getFlakeLockFlags(call.pureEval, call.writeDefault))
    /\ callBegins

\* flake.cc:356-507: computeLocks handles its next input
ComputeLocksInput ==
    /\ pc = "solve"
    /\ stack # << >>
    /\ stack[Len(stack)].todo # << >>
    /\ \E uninit \in UninitializedBool :
        LET n == Len(stack)
            fr == stack[n]
            r == computeLocksStep(fr, uninit, lockFlags,
                                  SolverState(newLockFile, flakeCache, fetchLog,
                                              parents, updatesUsed),
                                  world, topGen)
            fr2 == [ fr EXCEPT !.todo = Tail(@), !.overrides = r.overrides,
                               !.flakeInputs = [ @ EXCEPT ![Head(fr.todo)] = r.input ] ]
        IN /\ newLockFile' = r.lock
           /\ flakeCache' = r.cache
           /\ fetchLog' = r.log
           /\ updatesUsed' = r.updatesUsed
           /\ last' = r.last
           /\ IF r.err = "none"
              THEN /\ stack' = SubSeq(stack, 1, n - 1) \o << fr2 >> \o r.push
                   /\ parents' = r.parents
                   /\ UNCHANGED << pc, error >>
              ELSE /\ stack' = << >>
                   /\ parents' = Unwound(parents, stack)
                   /\ pc' = "failed"
                   /\ error' = r.err
    /\ UNCHANGED << world, disk, topGen, runs, lockFlags, oldLockFile, warnings,
                    wrote, flake, prev, topRef, caller, fetching, unit >>

\* flake.cc:509-514 (and 486): computeLocks has handled all its inputs and returns
ComputeLocksReturn ==
    /\ pc = "solve"
    /\ stack # << >>
    /\ stack[Len(stack)].todo = << >>
    /\ LET fr == stack[Len(stack)]
           unused == printOverrides(fr.overrides, fr.prefix)
       IN /\ warnings' = IF unused = {} THEN warnings
                         ELSE warnings \cup { [ kind |-> "unusedOverride",
                                                paths |-> { u.path : u \in unused } ] }
          /\ parents' = IF fr.popParent THEN SubSeq(parents, 1, Len(parents) - 1) ELSE parents
          /\ stack' = SubSeq(stack, 1, Len(stack) - 1)
    /\ UNCHANGED << world, disk, topGen, runs, pc, lockFlags, oldLockFile, newLockFile,
                    flakeCache, updatesUsed, fetchLog, error, wrote, flake, last, prev,
                    topRef, caller, fetching, unit >>

\* the call of check() left out
checkSkipped(lock) == TRUE

\* flake.cc:526: newLockFile.check() is called before the write decision
checkBeforeWrite(lock) == LockFileCheck(lock)

\* the write decision with the updateLockFile test made before the immutability test
writeDecisionUpdateFirst(changed, flags, hasSourcePath, immutable) ==
    IF ~changed THEN "unchanged"
    ELSE IF ~flags.writeLockFile THEN "notWriting"
    ELSE IF ~hasSourcePath THEN "CannotWrite"
    ELSE IF ~flags.updateLockFile THEN "LockChangesDisallowed"
    ELSE IF ~immutable THEN "mutableInput"
    ELSE "write"

\* the write decision without the updateLockFile test
writeDecisionUpdateUntested(changed, flags, hasSourcePath, immutable) ==
    IF ~changed THEN "unchanged"
    ELSE IF ~flags.writeLockFile THEN "notWriting"
    ELSE IF ~hasSourcePath THEN "CannotWrite"
    ELSE IF ~immutable THEN "mutableInput"
    ELSE "write"

\* flake.cc:531-592: whether the new lock file is written, in the order of the tests
writeDecision(changed, flags, hasSourcePath, immutable) ==
    IF ~changed THEN "unchanged"
    ELSE IF ~flags.writeLockFile THEN "notWriting"
    ELSE IF ~hasSourcePath THEN "CannotWrite"
    ELSE IF ~immutable THEN "mutableInput"
    ELSE IF ~flags.updateLockFile THEN "LockChangesDisallowed"
    ELSE "write"

\* the test after the write comparing the references only
unchangedAfterWrite(prevLockedRef, lockedRef) == lockedRef = prevLockedRef

\* flake.cc:584-585: the re-fetched top flake shows no change
writeDidNotTakeEffect(prevLockedRef, lockedRef) ==
    lockedRef = prevLockedRef /\ ~IsImmutable(lockedRef)

\* flake.cc:521-594: lockFlake after the root traversal
LockFlakeFinish ==
    /\ pc = "solve"
    /\ stack = << >>
    /\ \E warnDirty \in BOOLEAN, registered \in BOOLEAN :
        LET w1 == warnings \cup { [ kind |-> "unusedUpdate", paths |-> { u } ]
                                  : u \in lockFlags.inputUpdates \ updatesUsed }
            decision == writeDecision(newLockFile # oldLockFile, lockFlags,
                                      HasSourcePath(topRef),
                                      LockFileIsImmutable(newLockFile))
            end(p, e, ws) == /\ pc' = p
                             /\ error' = e
                             /\ warnings' = ws
                             /\ UNCHANGED << disk, topGen, wrote, flake, fetchLog >>
        IN IF ~checkBeforeWrite(newLockFile)
           THEN end("failed", "DanglingFollows", w1)
           ELSE IF decision = "unchanged"
           THEN end("done", "none", w1)
           ELSE IF decision = "notWriting"
           THEN end("done", "none", w1 \cup { [ kind |-> "notWriting", paths |-> {} ] })
           ELSE IF decision = "mutableInput"
           THEN end("done", "none",
                    IF warnDirty THEN w1 \cup { [ kind |-> "mutableInput", paths |-> {} ] }
                    ELSE w1)
           ELSE IF decision # "write"
           THEN end("failed", decision, w1)
           ELSE LET g2 == IF registered THEN topGen + 1 ELSE topGen
                    gf == getFlake(topRef, lockFlags.useRegistries, << >>, fetchLog,
                                   << >>, world, g2)
                IN /\ disk' = newLockFile
                   /\ wrote' = wrote + 1
                   /\ topGen' = g2
                   /\ fetchLog' = gf.log
                   /\ warnings' = w1 \cup { [ kind |-> "updatingLockFile", paths |-> {} ] }
                   /\ flake' = IF gf.err = "none" THEN gf.lockedRef ELSE flake
                   /\ IF gf.err # "none"
                      THEN pc' = "failed" /\ error' = gf.err
                      ELSE IF writeDidNotTakeEffect(flake, gf.lockedRef)
                      THEN pc' = "failed" /\ error' = "LockWriteDidNotTakeEffect"
                      ELSE pc' = "done" /\ error' = "none"
    /\ UNCHANGED << world, runs, lockFlags, oldLockFile, newLockFile, stack, flakeCache,
                    parents, updatesUsed, last, prev, topRef, caller, fetching, unit >>

Next ==
    \/ LockFlakeStart
    \/ PrimGetFlake
    \/ ComputeLocksInput
    \/ ComputeLocksReturn
    \/ LockFlakeFinish

Spec == Init /\ [][Next]_vars

\* lockFlake runs to its end once called: its loop iterations, its returns and
\* its final part are straight-line code that is not preempted for ever
\* ENABLED <<ComputeLocksInput>>_vars written out: the guard of the action; every
\* step of it shortens the todo list of the innermost call or empties the stack
ComputeLocksInputEnabled ==
    pc = "solve" /\ stack # << >> /\ stack[Len(stack)].todo # << >>

LiveSpec ==
    /\ Spec
    /\ WF_vars(ComputeLocksReturn)
    /\ WF_vars(LockFlakeFinish)
    /\ (<>[]ComputeLocksInputEnabled => []<><<ComputeLocksInput>>_vars)

\* no lockFlake call is made
LockIdle ==
    /\ world = "direct"
    /\ disk = EmptyMap
    /\ topGen = FirstGen(world)
    /\ runs = 0
    /\ pc = "idle"
    /\ lockFlags = NoFlags
    /\ oldLockFile = EmptyMap
    /\ newLockFile = EmptyMap
    /\ stack = << >>
    /\ flakeCache = << >>
    /\ parents = << >>
    /\ updatesUsed = {}
    /\ fetchLog = << >>
    /\ warnings = {}
    /\ error = "none"
    /\ wrote = 0
    /\ flake = NoRef
    /\ last = NoLast
    /\ prev = NoPrev
    /\ topRef = TopRef
    /\ caller = NoCaller

\* The fetcher on its own: one fetchTree call per behaviour
InitFetch ==
    /\ LockIdle
    /\ fetching \in FetchRequests
    /\ unit = NoUnit

lockVars == << world, disk, topGen, runs, pc, lockFlags, oldLockFile, newLockFile,
               stack, flakeCache, parents, updatesUsed, fetchLog, warnings, error,
               wrote, flake, last, prev, topRef, caller >>

FetchTree ==
    /\ fetching.outcome = "pending"
    /\ \E read \in EmptyOptionalRead : fetching' = InputFetchTree(fetching, read)
    /\ UNCHANGED << lockVars, unit >>

NextFetch == FetchTree

FetchSpec == InitFetch /\ [][NextFetch]_vars

-----------------------------------------------------------------------------
(* The lower_bound lookup of the reuse path on its own, over every set of   *)
(* input paths within the bounds.                                           *)

\* longest input path
MaxPathLen == 3

\* most --update-input flags of a call
MaxUpdates == 3

PathIds == {"a", "b"}

InputPaths == UNION { [ 1..n -> PathIds ] : n \in 1..MaxPathLen }

UpdateSets ==
    { {} } \cup { { f[i] : i \in 1..MaxUpdates } : f \in [ 1..MaxUpdates -> InputPaths ] }

InitUpdates ==
    /\ LockIdle
    /\ fetching = NoFetch
    /\ unit \in [ fn : { "hasChildUpdate" }, inputUpdates : UpdateSets,
                   inputPath : InputPaths, done : { FALSE }, result : { FALSE } ]

\* flake.cc:401-428: an input that has an old lock entry (so its path is not in
\* inputUpdates) and is kept computes hasChildUpdate
ChildUpdateLookup ==
    /\ unit.fn = "hasChildUpdate"
    /\ ~unit.done
    /\ unit.inputPath \notin unit.inputUpdates
    /\ unit' = [ unit EXCEPT !.done = TRUE,
                             !.result = hasChildUpdate(unit.inputUpdates, unit.inputPath) ]
    /\ UNCHANGED << lockVars, fetching >>

NextUpdates == ChildUpdateLookup

UpdateSpec == InitUpdates /\ [][NextUpdates]_vars

-----------------------------------------------------------------------------
(* parseFlakeInput on its own, over the declarations above                  *)

InitParse ==
    /\ LockIdle
    /\ fetching = NoFetch
    /\ unit \in [ fn : { "parseFlakeInput" }, inputName : { "a", "b" }, decl : Decls,
                   defaultRef : BOOLEAN, done : { FALSE },
                   result : { Parsed("none", DefaultInput) } ]

ParseFlakeInput ==
    /\ unit.fn = "parseFlakeInput"
    /\ ~unit.done
    /\ unit' = [ unit EXCEPT !.done = TRUE,
                             !.result = parseFlakeInput(unit.inputName, unit.decl,
                                                        unit.defaultRef) ]
    /\ UNCHANGED << lockVars, fetching >>

NextParse == ParseFlakeInput

ParseSpec == InitParse /\ [][NextParse]_vars

-----------------------------------------------------------------------------
(* db.cc: Transaction objects over the native transactions of the          *)
(* environment.  A native transaction is a handle 1, 2, ...; 0 is the null  *)
(* pointer.  `ended` counts the native commit and abort calls on a handle.  *)

MaxTxns == 3

TxnObjects == { "t1", "t2" }

NoTxn == 0

TxnHandles == 1..MaxTxns

\* the outcome of one operation on Transaction objects
TxnOp(op, obj, target, held, targetHeld, err) ==
    [ op |-> op, obj |-> obj, target |-> target, held |-> held,
      targetHeld |-> targetHeld, err |-> err ]

NoTxnOp == TxnOp("none", "t1", "t1", NoTxn, NoTxn, "none")

\* Database with its environment open or not, and Transaction() for every object
InitTxn ==
    /\ LockIdle
    /\ fetching = NoFetch
    /\ unit \in [ fn : { "Transaction" }, envOpen : BOOLEAN,
                   txn : { [ o \in TxnObjects |-> NoTxn ] },
                   alive : { [ o \in TxnObjects |-> TRUE ] },
                   started : { 0 },
                   ended : { [ h \in TxnHandles |-> 0 ] },
                   crashed : { FALSE },
                   last : { NoTxnOp } ]

TxnRunning == unit.fn = "Transaction" /\ ~unit.crashed

\* the handle kept when the native call throws
handleKeptOnFailure(txn2, failed) == IF failed THEN txn2 ELSE NoTxn

\* db.cc:82-83 and 94-95: txn = 0 before the native call is made
handleAfterEnd(txn2, failed) == NoTxn

\* db.cc:78-87 and 90-99, after the null test: the native call is made on txn2
\* and may throw a DbException, which is rethrown as an Error
endTransaction(u, op, o, failed) ==
    [ u EXCEPT !.txn[o] = handleAfterEnd(u.txn[o], failed),
               !.ended[u.txn[o]] = @ + 1,
               !.last = TxnOp(op, o, o, u.txn[o], u.txn[o],
                              IF failed THEN "DbException" ELSE "none") ]

\* Transaction::commit and Transaction::abort
endOrThrow(u, op, o, failed) ==
    IF u.txn[o] = NoTxn
    THEN [ u EXCEPT !.last = TxnOp(op, o, o, NoTxn, NoTxn, "NullTransaction") ]
    ELSE endTransaction(u, op, o, failed)

\* Transaction::begin(db)
Begin ==
    /\ TxnRunning
    /\ unit.started < MaxTxns
    /\ \E o \in TxnObjects, failed \in BOOLEAN :
          /\ unit.alive[o]
          /\ unit' =
               IF unit.txn[o] # NoTxn
               THEN \* assert(txn == 0) fails: the process is aborted
                    [ unit EXCEPT !.crashed = TRUE,
                                  !.last = TxnOp("begin", o, o, unit.txn[o], unit.txn[o],
                                                 "AssertionFailed") ]
               ELSE IF ~unit.envOpen
               THEN [ unit EXCEPT !.last = TxnOp("begin", o, o, NoTxn, NoTxn,
                                                 "EnvNotOpen") ]
               ELSE IF failed
               THEN [ unit EXCEPT !.last = TxnOp("begin", o, o, NoTxn, NoTxn,
                                                 "DbException") ]
               ELSE [ unit EXCEPT !.txn[o] = unit.started + 1,
                                  !.started = @ + 1,
                                  !.last = TxnOp("begin", o, o, NoTxn, NoTxn, "none") ]
    /\ UNCHANGED << lockVars, fetching >>

\* Transaction::commit()
Commit ==
    /\ TxnRunning
    /\ \E o \in TxnObjects, failed \in BOOLEAN :
          /\ unit.alive[o]
          /\ unit' = endOrThrow(unit, "commit", o, failed)
    /\ UNCHANGED << lockVars, fetching >>

\* Transaction::abort()
Abort ==
    /\ TxnRunning
    /\ \E o \in TxnObjects, failed \in BOOLEAN :
          /\ unit.alive[o]
          /\ unit' = endOrThrow(unit, "abort", o, failed)
    /\ UNCHANGED << lockVars, fetching >>

\* Transaction::moveTo(t), t being this object itself or another
MoveTo ==
    /\ TxnRunning
    /\ \E o \in TxnObjects, t \in TxnObjects :
          /\ unit.alive[o] /\ unit.alive[t]
          /\ unit' =
               IF unit.txn[t] # NoTxn
               THEN [ unit EXCEPT !.last = TxnOp("moveTo", o, t, unit.txn[o], unit.txn[t],
                                                 "TargetExists") ]
               ELSE [ unit EXCEPT !.txn = [ [ @ EXCEPT ![t] = unit.txn[o] ] EXCEPT ![o] = NoTxn ],
                                  !.last = TxnOp("moveTo", o, t, unit.txn[o], NoTxn, "none") ]
    /\ UNCHANGED << lockVars, fetching >>

\* Transaction::~Transaction()
Destroy ==
    /\ TxnRunning
    /\ \E o \in TxnObjects, failed \in BOOLEAN :
          /\ unit.alive[o]
          /\ unit' =
               IF unit.txn[o] # NoTxn
               THEN [ endTransaction(unit, "destroy", o, failed) EXCEPT !.alive[o] = FALSE ]
               ELSE [ unit EXCEPT !.alive[o] = FALSE,
                                  !.last = TxnOp("destroy", o, o, NoTxn, NoTxn, "none") ]
    /\ UNCHANGED << lockVars, fetching >>

NextTxn == Begin \/ Commit \/ Abort \/ MoveTo \/ Destroy

TxnSpec == InitTxn /\ [][NextTxn]_vars

-----------------------------------------------------------------------------
(* db.cc: the tables of a Database.  The Db handle of a table is named by   *)
(* the id it is stored under; `returned` lists the ids openTable returned,  *)
(* `closed` the ids whose closeTable returned.                              *)

MaxTables == 3

\* the ids a caller may pass: 0, issued ones and ones never issued
TableIds == 0..(MaxTables + 1)

DbOp(op, table, err, handle) == [ op |-> op, table |-> table, err |-> err, handle |-> handle ]

\* Database::Database()
InitDb ==
    /\ LockIdle
    /\ fetching = NoFetch
    /\ unit = [ fn |-> "Database", env |-> FALSE, nextId |-> 1, tables |-> {},
                returned |-> << >>, closed |-> {}, last |-> DbOp("none", 0, "none", 0) ]

\* Database::getDb(table): the error thrown, or the handle found
getDb(tables, table) ==
    IF table = 0 THEN DbOp("getDb", table, "TableNotOpen", 0)
    ELSE IF table \notin tables THEN DbOp("getDb", table, "UnknownTableId", 0)
    ELSE DbOp("getDb", table, "none", table)

\* the map left as it is by closeTable
tablesKept(tables, table) == tables

\* db.cc:330: tables.erase(table)
tablesErased(tables, table) == tables \ { table }

\* Database::closeTable(table); db->close may throw a DbException
closeTable(u, table, failed) ==
    IF getDb(u.tables, table).err # "none"
    THEN [ u EXCEPT !.last = [ getDb(u.tables, table) EXCEPT !.op = "closeTable" ] ]
    ELSE IF failed
    THEN [ u EXCEPT !.last = DbOp("closeTable", table, "DbException", 0) ]
    ELSE [ u EXCEPT !.tables = tablesErased(u.tables, table),
                    !.closed = @ \cup { table },
                    !.last = DbOp("closeTable", table, "none", 0) ]

\* Database::open(path): open2 refuses an open environment, and openEnv may throw
DbOpen ==
    /\ unit.fn = "Database"
    /\ \E failed \in BOOLEAN :
          unit' = IF unit.env
                  THEN [ unit EXCEPT !.last = DbOp("open", 0, "AlreadyOpen", 0) ]
                  ELSE IF failed
                  THEN [ unit EXCEPT !.last = DbOp("open", 0, "DbException", 0) ]
                  ELSE [ unit EXCEPT !.env = TRUE, !.last = DbOp("open", 0, "none", 0) ]
    /\ UNCHANGED << lockVars, fetching >>

\* Database::openTable(tableName, sorted); db->open may throw
OpenTable ==
    /\ unit.fn = "Database"
    /\ unit.nextId <= MaxTables
    /\ \E failed \in BOOLEAN :
          unit' = IF ~unit.env
                  THEN [ unit EXCEPT !.last = DbOp("openTable", 0, "EnvNotOpen", 0) ]
                  ELSE IF failed
                  THEN [ unit EXCEPT !.nextId = @ + 1,
                                     !.last = DbOp("openTable", 0, "DbException", 0) ]
                  ELSE [ unit EXCEPT !.nextId = @ + 1,
                                     !.tables = @ \cup { unit.nextId },
                                     !.returned = Append(@, unit.nextId),
                                     !.last = DbOp("openTable", unit.nextId, "none",
                                                   unit.nextId) ]
    /\ UNCHANGED << lockVars, fetching >>

\* Database::closeTable(table)
CloseTable ==
    /\ unit.fn = "Database"
    /\ \E table \in TableIds, failed \in BOOLEAN :
          unit' = closeTable(unit, table, failed)
    /\ UNCHANGED << lockVars, fetching >>

\* a lookup of a table id, as every table operation starts with: getDb(table)
GetDb ==
    /\ unit.fn = "Database"
    /\ \E table \in TableIds :
          unit' = [ unit EXCEPT !.last = getDb(unit.tables, table) ]
    /\ UNCHANGED << lockVars, fetching >>

\* Database::close(): closeTable for every table in the order of the ids, until
\* one throws (`failing`, 0 for none); then the environment is closed
DbClose ==
    /\ unit.fn = "Database"
    /\ \E failing \in unit.tables \cup { 0 } :
          unit' = IF ~unit.env THEN [ unit EXCEPT !.last = DbOp("close", 0, "none", 0) ]
                  ELSE IF failing # 0
                  THEN [ unit EXCEPT
                           !.tables = { i \in @ : i >= failing },
                           !.closed = @ \cup { i \in unit.tables : i < failing },
                           !.last = DbOp("close", failing, "DbException", 0) ]
                  ELSE [ unit EXCEPT !.tables = {}, !.closed = @ \cup unit.tables,
                                     !.env = FALSE,
                                     !.last = DbOp("close", 0, "none", 0) ]
    /\ UNCHANGED << lockVars, fetching >>

NextDb == DbOpen \/ OpenTable \/ CloseTable \/ GetDb \/ DbClose

DbSpec == InitDb /\ [][NextDb]_vars

-----------------------------------------------------------------------------
(* db.cc: revisioned state paths.  A string is the sequence of its          *)
(* characters.                                                              *)

MaxStatePathLen == 3

MaxRevision == 12

PathChars == { "/", "s", "-", "V", "7" }

StatePaths == UNION { [ 1..n -> PathChars ] : n \in 1..MaxStatePathLen }

RevisionPrefix == << "-", "R", "E", "V", "-" >>

Digits == << "0", "1", "2", "3", "4", "5", "6", "7", "8", "9" >>

\* int2String(n), n >= 0
RECURSIVE int2String(_)
int2String(n) ==
    IF n < 10 THEN << Digits[n + 1] >>
    ELSE Append(int2String(n \div 10), Digits[(n % 10) + 1])

DigitValue(c) == CHOOSE d \in 0..9 : Digits[d + 1] = c

IsDigit(c) == \E d \in 0..9 : Digits[d + 1] = c

\* string2Int(s, n): whether s is a number, and the number
RECURSIVE string2Int(_)
string2Int(s) ==
    IF s = << >> THEN [ ok |-> FALSE, n |-> 0 ]
    ELSE IF ~IsDigit(s[Len(s)]) THEN [ ok |-> FALSE, n |-> 0 ]
    ELSE IF Len(s) = 1 THEN [ ok |-> TRUE, n |-> DigitValue(s[1]) ]
    ELSE LET front == string2Int(SubSeq(s, 1, Len(s) - 1))
         IN [ ok |-> front.ok, n |-> front.n * 10 + DigitValue(s[Len(s)]) ]

\* s.find_last_not_of(chars), as the 1-based position, 0 for npos
find_last_not_of(s, chars) ==
    LET at == { i \in 1..Len(s) : \A j \in 1..Len(chars) : s[i] # chars[j] }
    IN IF at = {} THEN 0 ELSE CHOOSE i \in at : \A k \in at : k <= i

\* db.cc:459: the position the revision is read from
lastNotOfPrefix(s) == find_last_not_of(s, RevisionPrefix)

\* db.cc:460: substr(0, pos - prefix.length()); the length is a size_t, so a
\* pos below the length of the prefix gives the whole string
pathBefore(s, at) ==
    IF at >= Len(RevisionPrefix) + 1 THEN SubSeq(s, 1, at - 1 - Len(RevisionPrefix)) ELSE s

\* db.cc:462: substr(pos, size()); npos is beyond the end and throws
revisionFrom(s, at) ==
    IF at = 0 THEN [ ok |-> FALSE, n |-> 0 ] ELSE string2Int(SubSeq(s, at, Len(s)))

\* Database::makeStatePathRevision(statePath, revision)
makeStatePathRevision(statePath, revision) ==
    statePath \o RevisionPrefix \o int2String(revision)

\* Database::splitStatePathRevision(revisionedStatePath, statePath, revision)
splitStatePathRevision(s) ==
    [ statePath |-> pathBefore(s, lastNotOfPrefix(s)),
      revision |-> revisionFrom(s, lastNotOfPrefix(s)).n,
      err |-> IF revisionFrom(s, lastNotOfPrefix(s)).ok
              THEN "none" ELSE "MalformedRevision" ]

NoSplit == [ statePath |-> << >>, revision |-> 0, err |-> "none" ]

InitRevision ==
    /\ LockIdle
    /\ fetching = NoFetch
    /\ unit \in [ fn : { "statePathRevision" }, statePath : StatePaths,
                   revision : 0..MaxRevision, key : { << >> }, split : { NoSplit },
                   step : { "start" } ]

\* setStateReferences makes the key of a revision (db.cc:487)
MakeStatePathRevision ==
    /\ unit.fn = "statePathRevision"
    /\ unit.step = "start"
    /\ unit' = [ unit EXCEPT !.key = makeStatePathRevision(unit.statePath, unit.revision),
                             !.step = "made" ]
    /\ UNCHANGED << lockVars, fetching >>

\* queryStateReferences splits the key again (db.cc:511)
SplitStatePathRevision ==
    /\ unit.fn = "statePathRevision"
    /\ unit.step = "made"
    /\ unit' = [ unit EXCEPT !.split = splitStatePathRevision(unit.key),
                             !.step = "split" ]
    /\ UNCHANGED << lockVars, fetching >>

NextRevision == MakeStatePathRevision \/ SplitStatePathRevision

RevisionSpec == InitRevision /\ [][NextRevision]_vars


-----------------------------------------------------------------------------
(* Properties                                                              *)

\* a follows edge of `tree` whose target is neither the root nor an input of `tree`
Dangling(tree) ==
    { p \in DOMAIN tree : /\ tree[p].kind = "follows"
                          /\ tree[p].target # << >>
                          /\ tree[p].target \notin DOMAIN tree }

\* the fetches made while the input at `path`, or an input below it, was handled
FetchesBelow(path) == { i \in 1..Len(fetchLog) : IsPrefix(path, fetchLog[i].at) }

\* C1: whenever lockFlake returns, every follows edge of the returned lock file
\* names an input of that lock file; a new lock file with a dangling follows edge
\* is never written and, once the traversal is through, fails with DanglingFollows
\* with nothing written.
C1_NoDanglingFollows ==
    /\ pc = "done" => Dangling(newLockFile) = {}
    /\ wrote > 0 => Dangling(newLockFile) = {}
    /\ (pc = "failed" /\ Dangling(newLockFile) # {}
          /\ error \in {"DanglingFollows", "LockChangesDisallowed", "CannotWrite",
                        "LockWriteDidNotTakeEffect"})
       => error = "DanglingFollows"
    /\ error = "DanglingFollows" => (pc = "failed" /\ wrote = 0 /\ disk = oldLockFile)

\* C1 is about this state: lockFlake returned a lock file it wrote, which has a
\* follows edge
C1_Witness ==
    /\ pc = "done"
    /\ wrote = 1
    /\ \E p \in DOMAIN newLockFile : newLockFile[p].kind = "follows"

\* C1, the failing side: a run ended with DanglingFollows
C1_WitnessDangling == pc = "failed" /\ error = "DanglingFollows"

C10_MutableRejectedFirst ==
    /\ (last.branch = "fresh" /\ ~lockFlags.allowMutable /\ ~IsImmutable(last.inputRef))
       => (pc = "failed" /\ error = "MutableInPureMode")
    /\ (error = "MutableInPureMode" /\ flake # NoRef)
       => /\ pc = "failed"
          /\ last.branch = "fresh"
          /\ Len(fetchLog) = last.fetchesBefore
          /\ newLockFile = last.lockBefore
          /\ last.path \notin DOMAIN newLockFile
          /\ wrote = 0
          /\ TopLockOnDisk(topRef) = oldLockFile

\* C10 is about this state: an overridden input was rejected in pure mode
C10_Witness ==
    /\ pc = "failed"
    /\ error = "MutableInPureMode"
    /\ last.refOverridden
    /\ Len(fetchLog) > 0


\* the declared inputs `inputs` of the node at `prefix` are all, transitively, in
\* `tree` (the old lock below that node): a LockedNode whose originalRef is the
\* declared ref, or the same follows edge
RECURSIVE CompleteAndCurrent(_, _, _, _)
CompleteAndCurrent(inputs, tree, prefix, w) ==
    \A id \in DOMAIN inputs :
        /\ << id >> \in DOMAIN tree
        /\ IF inputs[id].hasFollows
           THEN tree[<< id >>] = FollowsEdge(prefix \o inputs[id].follows)
           ELSE /\ tree[<< id >>].kind = "locked"
                /\ tree[<< id >>].originalRef = inputs[id].ref
                /\ tree[<< id >>].isFlake = inputs[id].isFlake
                /\ inputs[id].isFlake =>
                     CompleteAndCurrent(Manifest(w, tree[<< id >>].lockedRef),
                                        Subtree(tree, << id >>), prefix \o << id >>, w)

\* the top-level input `id` meets the four conditions under which its old lock
\* entry is usable
RootReusable(id) ==
    /\ ~lockFlags.recreateLockFile
    /\ ~TopInputs(world)[id].hasFollows
    /\ << id >> \in DOMAIN oldLockFile
    /\ oldLockFile[<< id >>].kind = "locked"
    /\ << id >> \notin lockFlags.inputUpdates
    /\ << id >> \notin DOMAIN lockFlags.inputOverrides
    /\ oldLockFile[<< id >>].originalRef = TopInputs(world)[id].ref

\* no --update-input and no --override-input lies strictly beneath `path`
NothingBeneath(path) ==
    /\ \A u \in lockFlags.inputUpdates : ~IsStrictPrefix(path, u)
    /\ \A o \in DOMAIN lockFlags.inputOverrides : ~IsStrictPrefix(path, o)

\* the subtree of the top-level input `id` came out of the solve as it was
SubtreeKept(id) ==
    /\ << id >> \in DOMAIN newLockFile
    /\ newLockFile[<< id >>] = oldLockFile[<< id >>]
    /\ Subtree(newLockFile, << id >>) = Subtree(oldLockFile, << id >>)

\* C2: with a complete and current old lock file, no overrides, no updates and
\* recreateLockFile=false, lockFlake fetches nothing but the top flake, writes
\* nothing, and returns a lock file equal to the old one.
C2_CurrentLockUntouched ==
    (/\ pc # "idle"
     /\ lockFlags.inputOverrides = EmptyMap
     /\ lockFlags.inputUpdates = {}
     /\ ~lockFlags.recreateLockFile
     /\ CompleteAndCurrent(TopInputs(world), oldLockFile, << >>, world))
    => /\ \A i \in 1..Len(fetchLog) : fetchLog[i].ref = topRef
       /\ wrote = 0
       /\ disk = oldLockFile
       /\ pc = "done" => newLockFile = oldLockFile

\* C4: a run without overrides that follows a successful run with the override
\* p -> R, and reads the lock file that run produced, finds originalRef = R at p
\* and keeps the node at p on the reuse path.
C4_OverrideSticky ==
    (/\ prev.valid /\ prev.ok
     /\ lockFlags.inputOverrides = EmptyMap
     /\ ~lockFlags.recreateLockFile
     /\ oldLockFile = prev.lockFile)
    => \A p \in DOMAIN prev.flags.inputOverrides :
          (/\ p \in DOMAIN prev.lockFile
           /\ prev.lockFile[p].kind = "locked"
           /\ \A u \in lockFlags.inputUpdates : ~IsPrefix(u, p))
          => /\ prev.lockFile[p].originalRef = prev.flags.inputOverrides[p]
             /\ (last.path = p /\ last.branch # "none") => last.branch = "reuse"
             /\ pc = "done" => (p \in DOMAIN newLockFile /\ newLockFile[p] = prev.lockFile[p])

\* C5: a flake input locked on the fresh path after an override replaced its ref
\* gets the lockedRef fetched from the override and, as originalRef, the ref the
\* manifest declared.
C5_OriginalRefIsDeclared ==
    (/\ last.branch = "fresh" /\ last.err = "none" /\ last.isFlake
     /\ last.refOverridden /\ last.declaredRef # NoRef)
    => /\ newLockFile[last.path].lockedRef = FetchLocked(Resolve(last.inputRef), topGen)
       /\ newLockFile[last.path].originalRef = last.declaredRef

\* C6: an input without follows takes the reuse path exactly if the old node has a
\* LockedNode child of its id, inputUpdates does not hold its path, that child's
\* originalRef equals input.ref and no override ref was applied; hasOverride is
\* false when no override ref was applied.
C6_ReuseIffUsable ==
    last.branch \in {"reuse", "fresh"}
    => /\ (last.branch = "reuse")
          <=> (/\ last.oldNodePresent
               /\ last.oldKind = "locked"
               /\ ~last.inUpdates
               /\ last.oldOriginalRef = last.inputRef
               /\ ~last.refOverridden)
       /\ last.hasOverride = last.refOverridden

\* C7: an input with follows gets a follows edge and no fetch and no recursion; the
\* target is input.follows if the input was overridden or is absolute, and
\* inputPathPrefix ++ input.follows otherwise.
C7_FollowsTarget ==
    last.branch = "follows"
    => /\ last.path \in DOMAIN newLockFile
       /\ newLockFile[last.path] =
             FollowsEdge(IF last.refOverridden \/ last.absolute
                         THEN last.follows
                         ELSE last.prefix \o last.follows)
       /\ FetchesBelow(last.path) = {}
       /\ ~last.pushed

\* C8: a reusable top-level input with no update and no override beneath it causes
\* no fetch, for itself or below, and its subtree in the returned lock file is the
\* old one.
C8_ReusedSubtreeLazy ==
    pc # "idle"
    => \A id \in DOMAIN TopInputs(world) :
          (RootReusable(id) /\ NothingBeneath(<< id >>))
          => /\ FetchesBelow(<< id >>) = {}
             /\ pc = "done" => SubtreeKept(id)

\* C9: a reusable top-level input p with an --update-input strictly beneath it is
\* kept (old lockedRef and originalRef), its flake is fetched from the old
\* lockedRef, the input at the updated path takes the fresh path, and reusable
\* siblings with nothing to update beneath them are reused without a fetch.
C9_UpdateBelowReused ==
    pc # "idle"
    => \A id \in DOMAIN TopInputs(world) :
          (/\ RootReusable(id)
           /\ \E u \in lockFlags.inputUpdates : IsStrictPrefix(<< id >>, u))
          => /\ (last.path = << id >> /\ last.branch # "none")
                => /\ last.branch = "reuse"
                   /\ last.hasChildUpdate
                   /\ newLockFile[<< id >>] = oldLockFile[<< id >>]
                   /\ last.err = "none" =>
                        lookupInFlakeCache(flakeCache, oldLockFile[<< id >>].lockedRef).found
             /\ (last.path \in lockFlags.inputUpdates /\ last.branch \in {"reuse", "fresh"})
                => last.branch = "fresh"
             /\ pc = "done" => newLockFile[<< id >>] = oldLockFile[<< id >>]
             /\ \A sib \in DOMAIN TopInputs(world) \ {id} :
                   (RootReusable(sib) /\ NothingBeneath(<< sib >>))
                   => /\ FetchesBelow(<< sib >>) = {}
                      /\ pc = "done" => SubtreeKept(sib)

\* C11 as stated: a lockFlake call with a mutable top reference and
\* allowMutable=false fails with MutableInPureMode.
C11_TopMutableRejected ==
    (pc \in {"done", "failed"} /\ runs > 0
     /\ ~lockFlags.allowMutable /\ ~IsImmutable(topRef))
    => (pc = "failed" /\ error = "MutableInPureMode")

\* C11 amended: it is prim_getFlake that refuses a mutable top reference, when
\* evaluation is pure, before it calls lockFlake (nothing is fetched or written),
\* and it passes allowMutable = useRegistries = not pure and updateLockFile=false;
\* lockFlake itself makes no test of the top reference: in a direct call the
\* error comes from an input on the fresh path only.
C11_GetFlakeRejectsMutable ==
    /\ (caller.via = "getFlake" /\ caller.pureEval /\ ~IsImmutable(topRef))
       => /\ pc = "failed"
          /\ error = "MutableInPureMode"
          /\ fetchLog = << >>
          /\ newLockFile = EmptyMap
          /\ wrote = 0
    /\ caller.via = "getFlake"
       => /\ lockFlags.allowMutable = ~caller.pureEval
          /\ lockFlags.useRegistries = ~caller.pureEval
          /\ ~lockFlags.updateLockFile
    /\ (error = "MutableInPureMode"
        /\ ~(caller.via = "getFlake" /\ caller.pureEval /\ ~IsImmutable(topRef)))
       => (last.branch = "fresh" /\ ~IsImmutable(last.inputRef) /\ Len(fetchLog) > 0)

\* C11 is about this state: builtins.getFlake was called in pure evaluation on the
\* mutable top reference and was refused
C11_Witness ==
    /\ caller.via = "getFlake"
    /\ caller.pureEval
    /\ topRef = TopRef
    /\ pc = "failed"
    /\ error = "MutableInPureMode"

\* the elements of the sequence s
Range(s) == { s[i] : i \in 1..Len(s) }

\* the flake inputs on the fresh path meet the cycle guard: the iteration fails with
\* CircularImport exactly if input.ref is on the parents stack, and CircularImport
\* comes from nowhere else and with nothing written
CycleGuardOnFreshPath ==
    /\ (last.branch = "fresh" /\ last.isFlake /\ last.err \in {"none", "CircularImport"})
       => (last.err = "CircularImport" <=> last.inputRef \in Range(last.parentsBefore))
    /\ error = "CircularImport"
       => (pc = "failed" /\ last.branch = "fresh" /\ last.isFlake /\ wrote = 0)
    /\ \A i, j \in 1..Len(parents) : parents[i] = parents[j] => i = j

Decided ==
    \/ pc = "done"
    \/ pc = "failed" /\ error \in {"LockChangesDisallowed", "CannotWrite",
                                    "LockWriteDidNotTakeEffect"}

\* C13: the lock file is written exactly if the new lock differs from the old one,
\* writeLockFile is set, the top source is writable, the new lock is immutable and
\* updateLockFile is set; a changed but mutable new lock is skipped without
\* failure, whatever updateLockFile is.
C13_WrittenIff ==
    /\ Decided
       => /\ wrote = 1 <=> /\ newLockFile # oldLockFile
                           /\ lockFlags.writeLockFile
                           /\ HasSourcePath(topRef)
                           /\ LockFileIsImmutable(newLockFile)
                           /\ lockFlags.updateLockFile
          /\ wrote = 1 => disk = newLockFile
          /\ (wrote = 0 /\ topRef = TopRef) => disk = oldLockFile
    /\ wrote \in {0, 1}
    /\ ~Decided => wrote = 0
    /\ (Decided /\ newLockFile # oldLockFile /\ lockFlags.writeLockFile
        /\ HasSourcePath(topRef) /\ ~LockFileIsImmutable(newLockFile))
       => (pc = "done" /\ wrote = 0)

\* C13 is about this state: a changed, mutable new lock with updateLockFile=false
\* and writeLockFile=true was skipped and the call returned
C13_Witness ==
    /\ pc = "done"
    /\ newLockFile # oldLockFile
    /\ lockFlags.writeLockFile
    /\ ~lockFlags.updateLockFile
    /\ HasSourcePath(topRef)
    /\ ~LockFileIsImmutable(newLockFile)
    /\ wrote = 0

\* C14 as stated: with updateLockFile=false and a new lock that differs from the
\* old one, lockFlake fails with LockChangesDisallowed, whatever the other flags.
C14_ChangesAlwaysDisallowed ==
    (Decided /\ ~lockFlags.updateLockFile /\ newLockFile # oldLockFile)
    => (pc = "failed" /\ error = "LockChangesDisallowed")

\* C14 amended: lockFlake fails with LockChangesDisallowed exactly if the new lock
\* differs from the old one, updateLockFile=false, writeLockFile is set, the top
\* source is writable and the new lock is immutable, and then nothing is written;
\* with writeLockFile=false or a mutable new lock the changed lock is returned.
C14_ChangesDisallowedWhenWriting ==
    /\ Decided
       => /\ error = "LockChangesDisallowed"
             <=> /\ newLockFile # oldLockFile
                 /\ ~lockFlags.updateLockFile
                 /\ lockFlags.writeLockFile
                 /\ HasSourcePath(topRef)
                 /\ LockFileIsImmutable(newLockFile)
          /\ (newLockFile # oldLockFile /\ ~lockFlags.updateLockFile
              /\ (~lockFlags.writeLockFile \/ ~LockFileIsImmutable(newLockFile))
              /\ HasSourcePath(topRef))
             => (pc = "done" /\ wrote = 0)
    /\ error = "LockChangesDisallowed"
       => (pc = "failed" /\ wrote = 0 /\ disk = oldLockFile)

\* C14 is about this state: a changed, immutable new lock was refused
C14_Witness ==
    /\ pc = "failed"
    /\ error = "LockChangesDisallowed"
    /\ newLockFile # oldLockFile
    /\ oldLockFile # EmptyMap

\* C15: the lock file on disk and the top source change only in the step that ends
\* a call, after the root traversal is through and check() has passed, at most once
\* per call, and what is written is the whole new lock file; a call that fails in
\* the traversal or in check() has written nothing.
C15_NoPartialLockWritten ==
    /\ [][ (disk' # disk \/ topGen' # topGen \/ wrote' > wrote)
           => /\ pc = "solve"
              /\ stack = << >>
              /\ LockFileCheck(newLockFile)
              /\ wrote = 0
              /\ wrote' = 1
              /\ newLockFile' = newLockFile
              /\ disk' = newLockFile ]_vars
    /\ [](error \in {"MutableInPureMode", "CircularImport", "DanglingFollows",
                     "RegistryLookupDisallowed", "NoFlakeNix", "MalformedLock"}
          => (pc = "failed" /\ wrote = 0))

\* C15 is about this state: a call failed in the traversal with part of the new
\* lock built, and the lock file on disk is the one it read
C15_Witness ==
    /\ pc = "failed"
    /\ error \in {"MutableInPureMode", "CircularImport", "RegistryLookupDisallowed"}
    /\ DOMAIN newLockFile # {}
    /\ oldLockFile # EmptyMap
    /\ disk = oldLockFile
    /\ wrote = 0

\* the lockedRef of the top flake as fetched at the start of the call
PreWriteLockedRef == lookupInFlakeCache(flakeCache, topRef).lockedRef

\* C16: after the lock file is written the top flake is fetched again, the cache
\* of the solve notwithstanding; if the locked reference fetched is the one from
\* before the write and is not immutable the call fails with
\* LockWriteDidNotTakeEffect, otherwise it returns the flake fetched again.
C16_RefetchAfterWrite ==
    /\ wrote = 1
       => /\ fetchLog[Len(fetchLog)] = LogEntry(topRef, << >>)
          /\ Cardinality({ i \in 1..Len(fetchLog) : fetchLog[i].ref = topRef }) = 2
          /\ flake = FetchLocked(topRef, topGen)
          /\ (pc = "failed" /\ error = "LockWriteDidNotTakeEffect")
             <=> (flake = PreWriteLockedRef /\ ~IsImmutable(flake))
          /\ pc = "done" <=> ~(flake = PreWriteLockedRef /\ ~IsImmutable(flake))
    /\ error = "LockWriteDidNotTakeEffect" => wrote = 1
    /\ (wrote = 0 /\ pc = "done") => flake = PreWriteLockedRef

\* C16 is about this state: the lock file was written, the top source did not
\* register it, and the call failed
C16_Witness ==
    /\ wrote = 1
    /\ pc = "failed"
    /\ error = "LockWriteDidNotTakeEffect"
    /\ flake = PreWriteLockedRef

\* C16, the other side: the top source registered the write and the call returned
\* the flake fetched after it
C16_WitnessReturned ==
    /\ wrote = 1
    /\ pc = "done"
    /\ flake # PreWriteLockedRef

\* the fetchTree calls of the solve: all of the call's, but the one made again
\* for the top flake after the write
SolveFetches == IF wrote = 1 THEN SubSeq(fetchLog, 1, Len(fetchLog) - 1) ELSE fetchLog

\* the reference `ref` is a key of the fetch cache `cache`
Cached(cache, ref) == \E i \in 1..Len(cache) : cache[i].key = ref

\* the first entry of `cache` for `ref`
FirstCached(cache, ref) ==
    cache[CHOOSE i \in 1..Len(cache) :
            /\ cache[i].key = ref
            /\ \A j \in 1..(i - 1) : cache[j].key # ref]

\* the reference the last iteration asked fetchOrSubstituteTree for, if it did
RequestedRef ==
    IF last.branch = "fresh" /\ last.err # "MutableInPureMode" THEN last.inputRef
    ELSE IF last.branch = "reuse" /\ last.hasChildUpdate THEN last.oldLockedRef
    ELSE NoRef

\* C17: within one solve, a request for a reference the fetch cache holds makes no
\* fetchTree call and leaves the cache as it is, the node attached has the locked
\* reference of the first entry for it, and what the cache answers for a reference
\* never changes during the solve.
C17_CachedRequestNotFetched ==
    /\ [](( RequestedRef # NoRef /\ Cached(last.cacheBefore, RequestedRef) )
          => /\ Len(SolveFetches) = last.fetchesBefore
             /\ flakeCache = last.cacheBefore
             /\ (last.branch = "fresh" /\ last.path \in DOMAIN newLockFile)
                => newLockFile[last.path].lockedRef
                      = FirstCached(last.cacheBefore, RequestedRef).lockedRef)
    /\ [][ (pc = "solve" /\ pc' # "idle")
           => \A r \in Refs :
                 Cached(flakeCache, r)
                 => (Cached(flakeCache', r)
                     /\ FirstCached(flakeCache', r) = FirstCached(flakeCache, r)) ]_vars

\* C17 is about this state: an input was locked from the cache, without a fetch
C17_Witness ==
    /\ pc = "solve"
    /\ last.branch = "fresh"
    /\ last.err = "none"
    /\ Cached(last.cacheBefore, last.inputRef)
    /\ Len(fetchLog) = last.fetchesBefore
    /\ last.path \in DOMAIN newLockFile


\* C18: a fetch of an input that carries an expected NAR hash ends in one of
\* two ways only: a tree with the expected hash is returned, or the call
\* fails with HashMismatch.
C18_ExpectedHashOrMismatch ==
    (fetching.outcome \notin {"off", "pending"} /\ fetching.narHash # NoHash)
        => \/ fetching.outcome = "returned" /\ fetching.tree = fetching.narHash
           \/ fetching.outcome = "HashMismatch"

\* the parts of C18 the code keeps: no tree with another hash is returned,
\* and a failed substitution is followed by the real fetch
C18_NoOtherTreeReturned ==
    (fetching.outcome = "returned" /\ fetching.narHash # NoHash)
        => fetching.tree = fetching.narHash

C18_FetchedAfterFailedSubstitution ==
    /\ fetching.outcome = "returned"
    /\ fetching.narHash # NoHash
    /\ ~fetching.substitutable
    /\ fetching.by = "fetch"


\* the allowLookup argument of the last iteration's request (flake.cc:431-433, 467, 502)
RequestAllowsLookup ==
    last.branch = "fresh" /\ lockFlags.useRegistries

Returning ==
    pc = "solve" /\ stack # << >> /\ stack[Len(stack)].todo = << >>

\* the entry `id` left in the override map of the returning node is named by an
\* 'unused override' warning: by its own input path or by one of an entry below it
NamedUnused(ws, path) ==
    \E w \in ws : w.kind = "unusedOverride" /\ \E p \in w.paths : IsPrefix(path, p)

\* C20: when a node's inputs are all processed, every entry left in its override
\* map is named by an 'unused override' warning, and the return raises no error
\* and leaves the lock as it is.
C20_LeftOverridesReported ==
    [][ Returning
        => /\ \A id \in DOMAIN stack[Len(stack)].overrides :
                 NamedUnused(warnings', stack[Len(stack)].prefix \o << id >>)
           /\ pc' = pc /\ error' = error /\ newLockFile' = newLockFile ]_vars

\* the part of C20 the code keeps: every entry left that carries a ref is named,
\* and the return raises no error and leaves the lock as it is
C20_LeftRefsReported ==
    [][ Returning
        => /\ \A id \in DOMAIN stack[Len(stack)].overrides :
                 stack[Len(stack)].overrides[id].ref # NoRef
                 => NamedUnused(warnings', stack[Len(stack)].prefix \o << id >>)
           /\ pc' = pc /\ error' = error /\ newLockFile' = newLockFile ]_vars

\* a solve that warned of an unused override and completed
C20_WarnedAndCompleted ==
    /\ pc = "done"
    /\ \E w \in warnings : w.kind = "unusedOverride" /\ << "c" >> \in w.paths


\* LockedFlake::getFingerprint: the hash of (store path, rev count, last modified,
\* lock file); the first three are those of the tree the flake was locked to
getFingerprint(lockedFlake, lockFile) == << lockedFlake, lockFile >>

\* C21: a lockFlake call that repeats the successful call before it (same top
\* flake, same flags, nothing changed in between but what the first call wrote)
\* returns an equal lock file and the same top flake, hence the same fingerprint.
C21_FingerprintStable ==
    (pc = "done" /\ prev.valid /\ prev.ok /\ prev.flags = lockFlags)
        => /\ newLockFile = prev.lockFile
           /\ flake = prev.flake
           /\ getFingerprint(flake, newLockFile) = getFingerprint(prev.flake, prev.lockFile)

\* C21 is about this state: the first call wrote a lock, the second repeated it
C21_Witness ==
    /\ pc = "done"
    /\ prev.valid /\ prev.ok /\ prev.flags = lockFlags
    /\ prev.wrote = 1
    /\ newLockFile = prev.lockFile
    /\ flake = prev.flake


\* builtins.getFlake is being evaluated, or was, in pure evaluation
PureGetFlake == caller.via = "getFlake" /\ caller.pureEval

\* C22: prim_getFlake in pure evaluation refuses a mutable reference with
\* MutableInPureMode before anything is fetched or locked; otherwise it calls
\* lockFlake with updateLockFile=false and useRegistries = allowMutable = not pure,
\* so that in pure evaluation nothing is resolved through the registry (the fetch
\* cache holds direct keys only), nothing mutable is fetched, and every new lock
\* entry that is not a copy of the old lock's has immutable references.
C22_GetFlakePrimitive ==
    /\ (PureGetFlake /\ ~IsImmutable(topRef))
       => (pc = "failed" /\ error = "MutableInPureMode" /\ flake = NoRef
           /\ fetchLog = << >> /\ flakeCache = << >> /\ newLockFile = EmptyMap /\ wrote = 0)
    /\ (caller.via = "getFlake" /\ ~(caller.pureEval /\ ~IsImmutable(topRef)))
       => (flake # NoRef \/ error \notin {"none", "MutableInPureMode"})
    /\ caller.via = "getFlake"
       => lockFlags = getFlakeLockFlags(caller.pureEval, lockFlags.writeLockFile)
    /\ PureGetFlake
       => /\ \A i \in 1..Len(flakeCache) : IsDirect(flakeCache[i].key)
          /\ \A i \in 1..Len(fetchLog) : IsImmutable(fetchLog[i].ref)
          /\ \A p \in DOMAIN newLockFile :
                newLockFile[p].kind = "locked"
                => /\ IsImmutable(newLockFile[p].lockedRef)
                   /\ \/ IsImmutable(newLockFile[p].originalRef)
                      \/ (p \in DOMAIN oldLockFile /\ oldLockFile[p] = newLockFile[p])

\* C22 is about this state: builtins.getFlake in pure evaluation on a pinned flake
\* locked an input afresh
C22_Witness ==
    /\ PureGetFlake
    /\ pc = "done"
    /\ \E p \in DOMAIN newLockFile :
          p \notin DOMAIN oldLockFile /\ newLockFile[p].kind = "locked"
    /\ Len(fetchLog) > 1

\* builtins.getFlake in impure evaluation resolved an input through the registry
C22_WitnessImpure ==
    /\ caller.via = "getFlake" /\ ~caller.pureEval
    /\ pc = "done"
    /\ \E i \in 1..Len(flakeCache) : ~IsDirect(flakeCache[i].key)


\* the computeLocks calls in progress that pushed a parent before they were made
PushedFrames(st) == { i \in 1..Len(st) : st[i].popParent }

\* C23 as stated: the parents stack holds one entry per nested computeLocks call
\* in progress (every call but the root one).
C23_OneEntryPerNestedCall ==
    (pc = "solve" /\ stack # << >>) => Len(parents) = Len(stack) - 1

\* C23 amended: the parents stack holds one entry per nested computeLocks call in
\* progress that was made on the fresh path (the recursion of the reuse path pushes
\* nothing); it only grows or shrinks at its end, one entry at a time; and it is
\* empty whenever lockFlake has returned or failed.
C23_ParentsMirrorFreshRecursion ==
    /\ [](Len(parents) = Cardinality(PushedFrames(stack)))
    /\ [](pc \in {"idle", "done", "failed"} => parents = << >>)
    /\ [][ (pc = "solve" /\ pc' = "solve")
           => \/ parents' = parents
              \/ (Len(parents') = Len(parents) + 1 /\ IsPrefix(parents, parents')
                  /\ Len(stack') = Len(stack) + 1)
              \/ (Len(parents') = Len(parents) - 1 /\ IsPrefix(parents', parents)
                  /\ Len(stack') = Len(stack) - 1) ]_vars

\* C23 is about this state: an Error was thrown two fresh-path calls deep, and the
\* parents stack was emptied on the way out
C23_Witness ==
    /\ pc = "failed"
    /\ Len(last.parentsBefore) >= 2
    /\ parents = << >>

\* a reuse-path recursion is in progress below a fresh-path one
C23_WitnessReuse ==
    /\ pc = "solve"
    /\ Len(parents) >= 1
    /\ Len(stack) - 1 > Len(parents)


\* the last iteration asked for an indirect reference that the cache did not hold
\* while it held the direct reference the registry resolves it to
ResolvedWasCached ==
    /\ RequestedRef # NoRef
    /\ ~IsDirect(RequestedRef)
    /\ RequestAllowsLookup
    /\ ~Cached(last.cacheBefore, RequestedRef)
    /\ Cached(last.cacheBefore, Resolve(RequestedRef))

\* C24: when an indirect reference is resolved to a direct reference the fetch
\* cache already holds, nothing is fetched and the cache then answers for both
\* references with the entry it held; so no reference is fetched twice in a solve.
C24_ResolvedNotFetchedAgain ==
    /\ ResolvedWasCached
       => /\ Len(SolveFetches) = last.fetchesBefore
          /\ Cached(flakeCache, RequestedRef)
          /\ FirstCached(flakeCache, RequestedRef).lockedRef
                = FirstCached(last.cacheBefore, Resolve(RequestedRef)).lockedRef
    /\ \A i, j \in 1..Len(SolveFetches) :
          SolveFetches[i].ref = SolveFetches[j].ref => i = j

\* what the code does keep of C24: after an indirect reference was resolved, the
\* cache holds both the reference and what it resolves to
C24_BothKeysCached ==
    \A i \in 1..Len(flakeCache) :
        ~IsDirect(flakeCache[i].key) => Cached(flakeCache, Resolve(flakeCache[i].key))


\* some entry of inputUpdates is longer than inputPath and starts with it
HasStrictExtension(inputUpdates, inputPath) ==
    \E u \in inputUpdates : IsStrictPrefix(inputPath, u)

\* C25: on the reuse path, hasChildUpdate is true exactly if some inputUpdates
\* entry is a strict prefix-extension of the current input path.
C25_ChildUpdateIffExtension ==
    (unit.fn = "hasChildUpdate" /\ unit.done)
        => (unit.result <=> HasStrictExtension(unit.inputUpdates, unit.inputPath))

\* C25 is about this state: the lower bound is an extension of the path although
\* the set holds smaller paths and larger paths that are none
C25_Witness ==
    /\ unit.fn = "hasChildUpdate" /\ unit.done /\ unit.result
    /\ \E u \in unit.inputUpdates : PathLess(u, unit.inputPath)
    /\ \E u \in unit.inputUpdates :
          PathLess(unit.inputPath, u) /\ ~IsStrictPrefix(unit.inputPath, u)

\* no extension among the updates although a larger path is there
C25_WitnessNone ==
    /\ unit.fn = "hasChildUpdate" /\ unit.done /\ ~unit.result
    /\ \E u \in unit.inputUpdates : PathLess(unit.inputPath, u)


\* the warning that the flag --update-input `u` matches no input was made
WarnedUnusedUpdate(u) ==
    \E w \in warnings : w.kind = "unusedUpdate" /\ u \in w.paths

\* C26: after a solve, the 'unused update flag' warning is made for exactly the
\* inputUpdates paths the traversal did not visit, and no path that names an input
\* of the new lock, locked or follows, is warned of.
C26_UnusedUpdatesWarned ==
    pc = "done"
    => \A u \in lockFlags.inputUpdates :
          /\ WarnedUnusedUpdate(u) <=> u \notin updatesUsed
          /\ u \in DOMAIN newLockFile => ~WarnedUnusedUpdate(u)

\* what the code does keep of C26: the warning is made for exactly the paths not
\* in updatesUsed, and never for a path that names a locked input
C26_LockedInputsNotWarned ==
    pc = "done"
    => \A u \in lockFlags.inputUpdates :
          /\ WarnedUnusedUpdate(u) <=> u \notin updatesUsed
          /\ (u \in DOMAIN newLockFile /\ newLockFile[u].kind = "locked")
             => ~WarnedUnusedUpdate(u)


\* C27: with recreateLockFile no input of the top flake takes the reuse path, and
\* a call that repeats the successful call before it, so that the two differ only
\* in the flake.lock they find (the second finds what the first wrote), computes
\* the same new lock file.
C27_OldLockIgnored ==
    /\ (lockFlags.recreateLockFile /\ Len(last.path) = 1) => last.branch # "reuse"
    /\ (pc = "done" /\ lockFlags.recreateLockFile
        /\ prev.valid /\ prev.ok /\ prev.flags = lockFlags)
       => newLockFile = prev.lockFile

\* C27 is about this state: the first call found one lock file and wrote another,
\* the second found that one and computed the same again
C27_Witness ==
    /\ pc = "done"
    /\ lockFlags.recreateLockFile
    /\ prev.valid /\ prev.ok /\ prev.flags = lockFlags
    /\ prev.wrote = 1
    /\ oldLockFile = prev.lockFile
    /\ newLockFile = prev.lockFile
    /\ newLockFile # EmptyMap


\* an input declaration was parsed without an error
ParsedOk == unit.fn = "parseFlakeInput" /\ unit.done /\ unit.result.err = "none"

\* the declaration gives a reference: a type with its attributes, or a url
GivesRef(d) == d.type \/ d.url # NoAttr

\* C28 as stated: a parsed top-level input has exactly one of ref and follows;
\* with neither url/type nor follows its ref is the indirect reference of its
\* name; a nested override is given no default ref.
C28_ExactlyOneOfRefAndFollows ==
    /\ (ParsedOk /\ unit.defaultRef)
       => /\ (unit.result.input.ref # NoRef) # unit.result.input.hasFollows
          /\ (~GivesRef(unit.decl) /\ unit.decl.follows = NoAttr)
             => unit.result.input.ref = IndirectRef(unit.inputName)
    /\ (ParsedOk /\ ~unit.defaultRef /\ ~GivesRef(unit.decl))
       => unit.result.input.ref = NoRef

\* What parseFlakeInput keeps: a parsed top-level input has a ref or a follows, and both exactly
\* if the declaration gives a url or type beside follows; with neither url/type
\* nor follows its ref is the indirect reference of its name; in a nested
\* override a ref is set exactly if a url or type is given, here and in the
\* overrides parsed below a top-level input.
C28_RefOrFollows ==
    /\ (ParsedOk /\ unit.defaultRef)
       => /\ unit.result.input.ref # NoRef \/ unit.result.input.hasFollows
          /\ (unit.result.input.ref # NoRef /\ unit.result.input.hasFollows)
             <=> (GivesRef(unit.decl) /\ unit.decl.follows # NoAttr)
          /\ (~GivesRef(unit.decl) /\ unit.decl.follows = NoAttr)
             => unit.result.input.ref = IndirectRef(unit.inputName)
    /\ (ParsedOk /\ ~unit.defaultRef)
       => (unit.result.input.ref # NoRef <=> GivesRef(unit.decl))
    /\ ParsedOk
       => \A id \in DOMAIN unit.decl.inputs :
             /\ id \in DOMAIN unit.result.input.overrides
             /\ unit.result.input.overrides[id].ref # NoRef
                <=> GivesRef(unit.decl.inputs[id])

\* C28 is about this state: a top-level declaration with nothing but a nested
\* override that has neither url nor follows was parsed
C28_Witness ==
    /\ ParsedOk /\ unit.defaultRef
    /\ ~GivesRef(unit.decl) /\ unit.decl.follows = NoAttr
    /\ unit.result.input.ref = IndirectRef(unit.inputName)
    /\ \E id \in DOMAIN unit.result.input.overrides :
          /\ unit.result.input.overrides[id].ref = NoRef
          /\ ~unit.result.input.overrides[id].hasFollows


\* the inputs the top flake.nix declares: the entries of its inputs attribute
\* and the formals of outputs other than self
DeclaredInputs(w) == DOMAIN TopInputsBlock(w) \cup (TopFormals(w) \ {"self"})

\* C29: after a successful lockFlake the root of the new lock has one child,
\* a locked node or a follows edge, for each declared input of the top flake
\* and no other child.
C29_RootChildrenAreDeclaredInputs ==
    (pc = "done" /\ error = "none")
    => /\ ChildIds(newLockFile) = DeclaredInputs(world)
       /\ \A id \in DeclaredInputs(world) :
             newLockFile[<< id >>].kind \in {"locked", "follows"}

\* C29 is about this state: lockFlake succeeded on a flake with an input
\* declared only as a formal of outputs, and one declared both ways
C29_Witness ==
    /\ pc = "done" /\ error = "none"
    /\ \E id \in TopFormals(world) \ {"self"} : id \notin DOMAIN TopInputsBlock(world)
    /\ \E id \in DOMAIN TopInputsBlock(world) : newLockFile[<< id >>].kind = "follows"
    /\ \E id \in DeclaredInputs(world) : newLockFile[<< id >>].kind = "locked"

\* C29, the empty case: lockFlake succeeded on a flake that declares nothing,
\* beside a flake.lock that has inputs
C29_WitnessBare ==
    /\ pc = "done" /\ error = "none"
    /\ DeclaredInputs(world) = {}
    /\ oldLockFile # EmptyMap
    /\ newLockFile = EmptyMap


\* the longest input path of the lock files the universes hold
LongestLockedPath ==
    LET locks == UNION { DiskChoices(w) \cup { PinnedTopLock(w) }
                         \cup { OwnLock(w, r) : r \in Refs } : w \in Worlds }
        lens == { Len(p) : p \in UNION { DOMAIN l : l \in locks } }
    IN CHOOSE n \in lens : \A m \in lens : m <= n

\* the nesting of computeLocks calls: every fresh call has pushed a reference
\* no other has pushed, and the reused calls between two fresh ones descend an
\* old lock
DepthBound == 1 + (Cardinality(Refs) + 1) * (LongestLockedPath + 1)

\* C30: lockFlake terminates, in cyclic universes as well: the nesting of
\* computeLocks is bounded, no reference is twice on the parents stack, and a
\* started call ends by returning a lock file or by failing with an error.
C30_LockFlakeTerminates ==
    /\ [](Len(stack) <= DepthBound)
    /\ [](\A i, j \in 1..Len(parents) : parents[i] = parents[j] => i = j)
    /\ (pc = "solve") ~> ((pc = "done" /\ error = "none") \/ (pc = "failed" /\ error # "none"))

\* C30 is about this state: in the universe where A and B declare each other
\* the recursion has met A again below B and lockFlake has failed
C30_Witness ==
    /\ world = "cycle"
    /\ pc = "failed" /\ error = "CircularImport"
    /\ Len(last.parentsBefore) >= 2


\* the input at `path` of the new lock is locked from the reference `ref`
LockedFrom(path, ref) ==
    /\ path \in DOMAIN newLockFile
    /\ newLockFile[path].kind = "locked"
    /\ \/ newLockFile[path].originalRef = ref
       \/ newLockFile[path].lockedRef = FetchLocked(ref, topGen)

\* an 'unused override' warning lists the path
WarnedUnusedOverride(path) ==
    \E w \in warnings : w.kind = "unusedOverride" /\ path \in w.paths

\* C31: after lockFlake every entry of inputOverrides was applied (the input at
\* its path is locked from the override's ref) or is listed in an 'unused
\* override' warning.
C31_NoOverrideDropped ==
    pc = "done"
    => \A p \in DOMAIN lockFlags.inputOverrides :
          LockedFrom(p, lockFlags.inputOverrides[p]) \/ WarnedUnusedOverride(p)

\* what the code keeps of C31: an override whose path goes through flake inputs
\* that are locked afresh and do not follow is applied or warned of
C31_OverrideOfFreshFlakeInputKept ==
    (pc = "done" /\ oldLockFile = EmptyMap)
    => \A p \in DOMAIN lockFlags.inputOverrides :
          (\A i \in 1..(Len(p) - 1) :
              /\ SubSeq(p, 1, i) \in DOMAIN newLockFile
              => /\ newLockFile[SubSeq(p, 1, i)].kind = "locked"
                 /\ newLockFile[SubSeq(p, 1, i)].isFlake)
          => (\/ LockedFrom(p, lockFlags.inputOverrides[p])
              \/ WarnedUnusedOverride(p)
              \/ (p \in DOMAIN newLockFile /\ newLockFile[p].kind = "follows"))


\* the objects that hold the native transaction h
Owners(h) == { o \in TxnObjects : unit.txn[o] = h }

\* C32: a native transaction has at most one owner and is ended at most once;
\* one that no object holds any more has been ended exactly once; commit and
\* abort on an object without a transaction fail; after a commit or abort, failed
\* or not, the object holds nothing; moveTo into an object that holds a
\* transaction fails and changes neither; destroying a holder aborts.
C32_EndedExactlyOnce ==
    unit.fn = "Transaction"
    => /\ \A h \in TxnHandles :
             /\ Cardinality(Owners(h)) <= 1
             /\ unit.ended[h] <= 1
             /\ h > unit.started => (Owners(h) = {} /\ unit.ended[h] = 0)
             /\ (h <= unit.started /\ Owners(h) # {}) => unit.ended[h] = 0
             /\ (h <= unit.started /\ Owners(h) = {}) => unit.ended[h] = 1
       /\ \A o \in TxnObjects : ~unit.alive[o] => unit.txn[o] = NoTxn
       /\ (unit.last.op \in {"commit", "abort"} /\ unit.last.held = NoTxn)
          => unit.last.err = "NullTransaction"
       /\ unit.last.op \in {"commit", "abort", "destroy"}
          => unit.txn[unit.last.obj] = NoTxn
       /\ (unit.last.op = "moveTo" /\ unit.last.targetHeld # NoTxn)
          => /\ unit.last.err = "TargetExists"
             /\ unit.txn[unit.last.target] = unit.last.targetHeld
             /\ unit.txn[unit.last.obj] = unit.last.held
       /\ (unit.last.op = "destroy" /\ unit.last.held # NoTxn)
          => unit.ended[unit.last.held] = 1

\* C32 is about this state: a transaction was moved to the other object and a
\* native commit or abort of it failed, and another one ended with its holder
C32_Witness ==
    /\ unit.fn = "Transaction"
    /\ unit.started >= 2
    /\ unit.last.op \in {"commit", "abort"} /\ unit.last.err = "DbException"
    /\ unit.ended[unit.last.held] = 1
    /\ \E o \in TxnObjects : ~unit.alive[o]

\* C32: a moveTo into a holder was refused
C32_WitnessRefused ==
    /\ unit.fn = "Transaction"
    /\ unit.last.op = "moveTo" /\ unit.last.err = "TargetExists"
    /\ unit.last.held # NoTxn


\* the ids openTable has returned
Issued == { unit.returned[i] : i \in 1..Len(unit.returned) }

\* C33: openTable never returns 0 nor an id twice; the table map holds exactly
\* the returned ids whose closeTable has not returned; a lookup of 0, of an id
\* never returned or of a closed id throws and yields no handle.
C33_TableIdsFresh ==
    unit.fn = "Database"
    => /\ 0 \notin Issued
       /\ \A i, j \in 1..Len(unit.returned) : unit.returned[i] = unit.returned[j] => i = j
       /\ \A id \in Issued : id < unit.nextId
       /\ unit.tables = Issued \ unit.closed
       /\ (unit.last.op = "getDb"
           /\ (unit.last.table = 0 \/ unit.last.table \notin Issued
               \/ unit.last.table \in unit.closed))
          => (unit.last.err # "none" /\ unit.last.handle = 0)

\* C33 is about this state: after a failed openTable, two opened tables and a
\* closeTable, the closed id is looked up
C33_Witness ==
    /\ unit.fn = "Database"
    /\ Len(unit.returned) >= 2
    /\ unit.nextId > Len(unit.returned) + 1
    /\ unit.last.op = "getDb" /\ unit.last.table \in unit.closed
    /\ unit.last.err = "UnknownTableId"


\* a key was made and split again
RoundTripDone == unit.fn = "statePathRevision" /\ unit.step = "split"

\* C34: splitStatePathRevision(makeStatePathRevision(p, r)) yields (p, r) for
\* every state path p and revision r >= 0.
C34_RoundTrip ==
    RoundTripDone
    => /\ unit.split.err = "none"
       /\ unit.split.statePath = unit.statePath
       /\ unit.split.revision = unit.revision

\* what the code keeps of C34: the round trip of a revision of one digit, and
\* for a longer one the last digit
C34_OneDigitRoundTrip ==
    RoundTripDone
    => /\ unit.split.err = "none"
       /\ unit.split.revision = unit.revision % 10
       /\ unit.revision < 10 => unit.split.statePath = unit.statePath

=============================================================================
